---- MODULE Spec2Model ----
(***************************************************************************)
(* A model of src/App.tsx: the round-robin league manager.  The React      *)
(* component's state hooks are the variables, every event handler is one   *)
(* action, and the helpers of the component are operators.                 *)
(*                                                                         *)
(* Representation.                                                         *)
(*   - A text (team name, player name, league name, pair key) is a         *)
(*     sequence of characters, each character a one-element string, so     *)
(*     that trim(), sort() and template concatenation are computed.        *)
(*   - A value of type `number | ''` (a score) is <<>> for '' and <<n>>    *)
(*     for the number n; the value of a numeric <input> is <<>> for the    *)
(*     empty text and <<n>> for a numeral that parseInt reads as n.        *)
(*   - An optional field (originalScores?, originalGoalScorers?) and a     *)
(*     nullable (currentLeagueName) is <<>> for undefined/null and <<v>>   *)
(*     for the value v.                                                    *)
(*   - The identity `id-${n}` is the number n.                             *)
(*   - Arrays are sequences; the source's 0-based indices are kept in the  *)
(*     variables and shifted by one where a sequence is indexed.           *)
(***************************************************************************)
EXTENDS Integers, Sequences, FiniteSets, TLC

\* ------------------------------------------------------------------ bounds
\* Largest number of teams the count input delivers.
MaxTeams == 3
\* Largest roster size the count input delivers.
MaxPlayers == 1
\* Largest numeral typed into a score input.
MaxScore == 1
\* Largest numeral typed into a scorer's goal input.
MaxGoals == 1
\* Cap on the identity counter: in the setup flow a handler that generates
\* identities is taken only while the counter stays at or below it.
MaxId == 6

\* ------------------------------------------------------------------ texts
Undefined == <<>>
Some(v) == <<v>>
IsDefined(o) == o # <<>>
Get(o) == o[1]

\* UTF-16 code unit of each character the model uses (String.prototype.sort
\* order).  TEH, YEH, MEEM spell the default team name, BEH .. NOON the
\* default player name of the source.
Code(c) ==
  CASE c = " " -> 32
    [] c = "-" -> 45
    [] c = "1" -> 49
    [] c = "2" -> 50
    [] c = "3" -> 51
    [] c = "4" -> 52
    [] c = "A" -> 65
    [] c = "B" -> 66
    [] c = "C" -> 67
    [] c = "L" -> 76
    [] c = "M" -> 77
    [] c = "P" -> 80
    [] c = "ALEF" -> 1575
    [] c = "BEH" -> 1576
    [] c = "TEH" -> 1578
    [] c = "ZAIN" -> 1586
    [] c = "MEEM" -> 1605
    [] c = "NOON" -> 1606
    [] c = "KEHEH" -> 1705
    [] c = "YEH" -> 1740

Digit(n) ==
  CASE n = 1 -> "1" [] n = 2 -> "2" [] n = 3 -> "3" [] n = 4 -> "4"

RECURSIVE TrimStart(_)
TrimStart(s) ==
  IF s # <<>> /\ Head(s) = " " THEN TrimStart(Tail(s)) ELSE s

RECURSIVE TrimEnd(_)
TrimEnd(s) ==
  IF s # <<>> /\ s[Len(s)] = " " THEN TrimEnd(SubSeq(s, 1, Len(s) - 1)) ELSE s

\* the text as it is typed
TrimNothing(s) == s
\* String.prototype.trim
Trim(s) == TrimEnd(TrimStart(s))

\* a < b in the order Array.prototype.sort uses without a comparator
RECURSIVE StrLess(_, _)
StrLess(a, b) ==
  IF b = <<>> THEN FALSE
  ELSE IF a = <<>> THEN TRUE
  ELSE IF Code(Head(a)) # Code(Head(b)) THEN Code(Head(a)) < Code(Head(b))
  ELSE StrLess(Tail(a), Tail(b))

\* `تیم ${teamIndex + 1}` and `بازیکن ${playerIndex + 1}` (0-based index)
DefaultTeamName(teamIndex) == <<"TEH", "YEH", "MEEM", " ", Digit(teamIndex + 1)>>
DefaultPlayerName(playerIndex) ==
  <<"BEH", "ALEF", "ZAIN", "YEH", "KEHEH", "NOON", " ", Digit(playerIndex + 1)>>
UnknownName == <<"NOON", "ALEF", "MEEM">>

normalizePair(teamA, teamB) ==
  LET sortedNames == IF StrLess(teamB, teamA) THEN <<teamB, teamA>>
                     ELSE <<teamA, teamB>>
  IN sortedNames[1] \o <<"-">> \o sortedNames[2]

\* ------------------------------------------------------------------ arrays
\* Array.prototype.findIndex and find, 1-based, over the set of the indices
\* that pass the test; 0 when no element passes it.
FindIndex(passing) ==
  IF passing = {} THEN 0
  ELSE CHOOSE i \in passing : \A j \in passing : i <= j

RECURSIVE SumGoals(_)
SumGoals(scorers) ==
  IF scorers = <<>> THEN 0 ELSE Head(scorers).goals + SumGoals(Tail(scorers))

IndexById(teams, id) == FindIndex({k \in 1..Len(teams) : teams[k].id = id})
IndexByName(teams, name) ==
  FindIndex({k \in 1..Len(teams) : teams[k].name = name})

\* the search that gives the last unsaved match result
findLastUnsavedMatchIndex(results) ==
  LET unsaved == {k \in 1..Len(results) : ~results[k].saved}
  IN IF unsaved = {} THEN 0 ELSE (CHOOSE i \in unsaved : \A j \in unsaved : j <= i) - 1

findFirstUnsavedMatchIndex(results) ==
  LET firstUnsavedIndex == FindIndex({k \in 1..Len(results) : ~results[k].saved}) - 1
  IN IF firstUnsavedIndex # -1 THEN firstUnsavedIndex ELSE 0

\* ------------------------------------------------------------------ fixtures
\* the id of `team?.id || ''` when no team is found
NoId == -1

\* the loops with an inner loop that starts at j = i
RECURSIVE PairLoopFromSelf(_, _, _)
PairLoopFromSelf(teamNames, i, j) ==
  IF i > Len(teamNames) THEN <<>>
  ELSE IF j > Len(teamNames) THEN PairLoopFromSelf(teamNames, i + 1, i + 1)
  ELSE <<<<teamNames[i], teamNames[j]>>>> \o PairLoopFromSelf(teamNames, i, j + 1)

RECURSIVE PairLoop(_, _, _)
PairLoop(teamNames, i, j) ==
  IF i > Len(teamNames) THEN <<>>
  ELSE IF j > Len(teamNames) THEN PairLoop(teamNames, i + 1, i + 2)
  ELSE <<<<teamNames[i], teamNames[j]>>>> \o PairLoop(teamNames, i, j + 1)

NewMatchResult(teams, match) ==
  LET k1 == IndexByName(teams, match[1])
      k2 == IndexByName(teams, match[2])
  IN [team1Id |-> IF k1 = 0 THEN NoId ELSE teams[k1].id,
      team2Id |-> IF k2 = 0 THEN NoId ELSE teams[k2].id,
      team1Score |-> <<>>,
      team2Score |-> <<>>,
      team1GoalScorers |-> <<>>,
      team2GoalScorers |-> <<>>,
      saved |-> FALSE,
      goalScorerMismatch |-> FALSE,
      isEditing |-> FALSE,
      originalScores |-> Undefined,
      originalGoalScorers |-> Undefined]

\* the generation with the test of the number of teams inverted
generateForTooFewOnly(teams) ==
  LET teamNames == [k \in 1..Len(teams) |-> teams[k].name]
      newMatches == PairLoop(teamNames, 1, 2)
  IN IF Len(teamNames) >= 2
     THEN [newMatches |-> <<>>, newMatchResults |-> <<>>]
     ELSE [newMatches |-> newMatches,
           newMatchResults |->
             [k \in 1..Len(newMatches) |-> NewMatchResult(teams, newMatches[k])]]

generateAllRoundRobinMatches(teams) ==
  LET teamNames == [k \in 1..Len(teams) |-> teams[k].name]
      newMatches == PairLoop(teamNames, 1, 2)
  IN IF Len(teamNames) < 2
     THEN [newMatches |-> <<>>, newMatchResults |-> <<>>]
     ELSE [newMatches |-> newMatches,
           newMatchResults |->
             [k \in 1..Len(newMatches) |-> NewMatchResult(teams, newMatches[k])]]

\* ------------------------------------------------------------------ standings
ZeroStat(team) ==
  [name |-> team.name, played |-> 0, wins |-> 0, draws |-> 0, losses |-> 0,
   gf |-> 0, ga |-> 0, gd |-> 0, points |-> 0]

\* updateStatEntry without the recomputation of gd
updateStatEntryStaleGd(teamStat, currentScore, opponentScore, mult) ==
  [teamStat EXCEPT
     !.played = @ + 1 * mult,
     !.gf = @ + currentScore * mult,
     !.ga = @ + opponentScore * mult,
     !.wins = @ + (IF currentScore > opponentScore THEN 1 * mult ELSE 0),
     !.losses = @ + (IF currentScore < opponentScore THEN 1 * mult ELSE 0),
     !.draws = @ + (IF currentScore = opponentScore THEN 1 * mult ELSE 0),
     !.points = @ + (IF currentScore > opponentScore THEN 3 * mult
                     ELSE IF currentScore = opponentScore THEN 1 * mult ELSE 0)]

updateStatEntry(teamStat, currentScore, opponentScore, mult) ==
  LET gf == teamStat.gf + currentScore * mult
      ga == teamStat.ga + opponentScore * mult
  IN [name |-> teamStat.name,
      played |-> teamStat.played + 1 * mult,
      wins |-> teamStat.wins + (IF currentScore > opponentScore THEN 1 * mult ELSE 0),
      draws |-> teamStat.draws + (IF currentScore = opponentScore THEN 1 * mult ELSE 0),
      losses |-> teamStat.losses + (IF currentScore < opponentScore THEN 1 * mult ELSE 0),
      gf |-> gf,
      ga |-> ga,
      gd |-> gf - ga,
      points |-> teamStat.points
                 + (IF currentScore > opponentScore THEN 3 * mult
                    ELSE IF currentScore = opponentScore THEN 1 * mult ELSE 0)]

applyMatchStatsToTeams(stats, match, submittedTeams, multiplier) ==
  IF match.team1Score = <<>> \/ match.team2Score = <<>> THEN stats
  ELSE
    LET k1 == IndexById(submittedTeams, match.team1Id)
        k2 == IndexById(submittedTeams, match.team2Id)
    IN IF k1 = 0 \/ k2 = 0 THEN stats
       ELSE
         LET score1 == Get(match.team1Score)
             score2 == Get(match.team2Score)
             team1Index == IndexByName(stats, submittedTeams[k1].name)
             team2Index == IndexByName(stats, submittedTeams[k2].name)
             after1 == IF team1Index > 0
                       THEN [stats EXCEPT ![team1Index] =
                               updateStatEntry(@, score1, score2, multiplier)]
                       ELSE stats
         IN IF team2Index > 0
            THEN [after1 EXCEPT ![team2Index] =
                    updateStatEntry(@, score2, score1, multiplier)]
            ELSE after1

\* ------------------------------------------------------------------ inputs
\* What the user can type: the value of the two count inputs, of a score
\* input and of a goal input (<<>> the empty text, <<n>> a numeral), and the
\* texts typed as team, player and league names.
TeamCountInputs == {<<>>} \cup {<<n>> : n \in -1..MaxTeams}
PlayerCountInputs == {<<>>} \cup {<<n>> : n \in -1..MaxPlayers}
ScoreInputs == {<<>>} \cup {<<n>> : n \in 0..MaxScore}
\* what the score input delivers when a minus sign is typed too
SignedScoreInputs == {<<>>} \cup {<<n>> : n \in -1..MaxScore}
GoalInputs == {<<>>} \cup {<<n>> : n \in 0..MaxGoals}
TeamNameInputs == {<<>>, <<"A">>, <<"A", " ">>, <<"B">>}
PlayerNameInputs == {<<>>, <<"P">>}
LeagueNameInputs == {<<>>, <<" ">>, <<"L">>}
\* the inputs of a user who sets up a league of two teams with default names
TwoTeams == {<<2>>}
\* ... or a league of three teams of one player each, who enters a goal for
\* a side and none or one goal for its scorer
ThreeTeams == {<<3>>}
OnePlayer == {<<1>>}
OneGoalScores == {<<1>>}
FewGoals == {<<0>>, <<1>>}
NoPlayers == {<<>>}
\* ... or with rosters of one player at most
SmallRosters == {<<>>, <<0>>, <<1>>}
BlankNames == {<<>>}
TwoNames == {<<"A">>, <<"B">>}
OneLeagueName == {<<"L">>}
TwoLeagueNames == {<<"L">>, <<"M">>}

\* ------------------------------------------------------------------ state
VARIABLES
  numTeams, numPlayersPerTeam, teamData, submittedTeamData, matches,
  matchResults, teamStats, roundNumber, allPlayedPairs, appStage,
  currentTeamIndex, savedLeagues, currentLeagueName, showSaveLeagueModal,
  saveLeagueInputName, showOverwriteConfirm, leagueNameToOverwrite,
  showWarningModal, warningMessage, warningModalType, currentMatchViewIndex,
  globalIdCounter, localStorage

\* the league being played
league == <<numTeams, numPlayersPerTeam, teamData, submittedTeamData, matches,
            matchResults, teamStats, roundNumber, allPlayedPairs,
            currentMatchViewIndex, globalIdCounter>>
setupVars == <<numTeams, numPlayersPerTeam, teamData, globalIdCounter>>
screen == <<appStage, currentTeamIndex>>
store == <<savedLeagues, localStorage>>
saveDialog == <<showSaveLeagueModal, saveLeagueInputName, showOverwriteConfirm,
                leagueNameToOverwrite>>
warning == <<showWarningModal, warningMessage, warningModalType>>
vars == <<league, screen, store, currentLeagueName, saveDialog, warning>>

\* JSON.stringify then JSON.parse of one stored match result: a key whose
\* value is undefined is dropped.
JsonMatchResult(m) ==
  [team1Id |-> m.team1Id, team2Id |-> m.team2Id,
   team1Score |-> m.team1Score, team2Score |-> m.team2Score,
   team1GoalScorers |-> m.team1GoalScorers,
   team2GoalScorers |-> m.team2GoalScorers,
   saved |-> m.saved, goalScorerMismatch |-> m.goalScorerMismatch,
   isEditing |-> m.isEditing]

JsonLeague(state) ==
  [state EXCEPT !.matchResults =
     [k \in 1..Len(state.matchResults) |-> JsonMatchResult(state.matchResults[k])]]

\* localStorage.setItem('savedLeagues', JSON.stringify(leagues)) followed by
\* what JSON.parse reads back from that item
JsonLeagues(leagues) == [name \in DOMAIN leagues |-> JsonLeague(leagues[name])]

\* localStorage holds <<>> while the item is absent, <<text>> once it is set
loadSavedLeaguesFromStorage(storage) ==
  IF IsDefined(storage) THEN Get(storage) ELSE <<>>

NoLeagues == <<>>

Init ==
  /\ numTeams = 0
  /\ numPlayersPerTeam = 0
  /\ teamData = <<>>
  /\ submittedTeamData = <<>>
  /\ matches = <<>>
  /\ matchResults = <<>>
  /\ teamStats = <<>>
  /\ roundNumber = 0
  /\ allPlayedPairs = <<>>
  /\ appStage = "initialScreen"
  /\ currentTeamIndex = 0
  /\ savedLeagues = NoLeagues
  /\ currentLeagueName = Undefined
  /\ showSaveLeagueModal = FALSE
  /\ saveLeagueInputName = <<>>
  /\ showOverwriteConfirm = FALSE
  /\ leagueNameToOverwrite = <<>>
  /\ showWarningModal = FALSE
  /\ warningMessage = ""
  /\ warningModalType = "alert"
  /\ currentMatchViewIndex = 0
  /\ globalIdCounter = 0
  /\ localStorage = Undefined

\* ------------------------------------------------------------------ screens
\* The component returns the initial screen alone while this holds; every
\* other screen, the header and both modals belong to the main view.
InitialScreen == roundNumber = 0 /\ appStage = "initialScreen"
MainView == ~InitialScreen
\* Both modals are `fixed inset-0 ... z-50` overlays of the main view: an
\* overlay covers the page under it, and the save dialog, rendered after the
\* warning modal, covers the warning modal too.
SaveLeagueModalShown == MainView /\ showSaveLeagueModal
WarningModalShown == MainView /\ showWarningModal /\ ~showSaveLeagueModal
PageShown == MainView /\ ~showWarningModal /\ ~showSaveLeagueModal
LoadLeagueOptionsScreen ==
  PageShown /\ roundNumber = 0 /\ appStage = "loadLeagueOptions"
SetupCountsScreen == PageShown /\ roundNumber = 0 /\ appStage = "setupCounts"
\* the naming screen rendered without the test of roundNumber
NamingScreenWhilePlayed ==
  /\ PageShown
  /\ appStage = "namingTeamsAndPlayers"
  /\ currentTeamIndex < Len(teamData)
NamingScreen ==
  /\ PageShown
  /\ roundNumber = 0
  /\ appStage = "namingTeamsAndPlayers"
  /\ currentTeamIndex < Len(teamData)
\* the header buttons of a league in progress
LeagueHeader == PageShown /\ roundNumber > 0
\* the single-match input card (the matches view is the default view)
MatchInputSection ==
  /\ PageShown
  /\ roundNumber > 0
  /\ Len(matches) > 0
  /\ currentMatchViewIndex < Len(matches)
  /\ currentMatchViewIndex < Len(matchResults)

areCountsValid == numTeams > 1 /\ numPlayersPerTeam >= 0
allResultsIn ==
  Len(matches) > 0 /\ \A k \in 1..Len(matchResults) : matchResults[k].saved

\* ------------------------------------------------------------------ reset
\* the reset that leaves the name of the current league
ResetLeagueKeepsName ==
  /\ numTeams' = 0
  /\ numPlayersPerTeam' = 0
  /\ teamData' = <<>>
  /\ submittedTeamData' = <<>>
  /\ matches' = <<>>
  /\ matchResults' = <<>>
  /\ teamStats' = <<>>
  /\ roundNumber' = 0
  /\ allPlayedPairs' = <<>>
  /\ currentTeamIndex' = 0
  /\ currentLeagueName' = currentLeagueName
  /\ globalIdCounter' = 0
  /\ currentMatchViewIndex' = 0

\* resetGameStates without its setAppStage
ResetLeague ==
  /\ numTeams' = 0
  /\ numPlayersPerTeam' = 0
  /\ teamData' = <<>>
  /\ submittedTeamData' = <<>>
  /\ matches' = <<>>
  /\ matchResults' = <<>>
  /\ teamStats' = <<>>
  /\ roundNumber' = 0
  /\ allPlayedPairs' = <<>>
  /\ currentTeamIndex' = 0
  /\ currentLeagueName' = Undefined
  /\ globalIdCounter' = 0
  /\ currentMatchViewIndex' = 0

resetGameStates ==
  /\ ResetLeague
  /\ appStage' = "initialScreen"

\* ------------------------------------------------------------------ setup
handleStartNewLeague ==
  /\ InitialScreen
  /\ ResetLeague
  /\ appStage' = "setupCounts"
  /\ UNCHANGED <<store, saveDialog, warning>>

handleContinueLeague ==
  /\ InitialScreen
  /\ IF DOMAIN savedLeagues = {}
     THEN /\ warningMessage' = "noSavedLeagues"
          /\ warningModalType' = "alert"
          /\ showWarningModal' = TRUE
          /\ UNCHANGED appStage
     ELSE /\ appStage' = "loadLeagueOptions"
          /\ UNCHANGED warning
  /\ UNCHANGED <<league, currentTeamIndex, store, currentLeagueName, saveDialog>>

\* the back buttons of the load and the count screens
BackToInitialScreen ==
  /\ LoadLeagueOptionsScreen \/ SetupCountsScreen
  /\ appStage' = "initialScreen"
  /\ UNCHANGED <<league, currentTeamIndex, store, currentLeagueName, saveDialog,
                 warning>>

NewPlayers(first, count) ==
  [p \in 1..count |-> [id |-> first + p - 1, name |-> <<>>]]

\* Array(count).fill(null).map(() => ({id: generateUniqueId(), name: '',
\* players: Array(perTeam).fill(null).map(...)})) from counter value `counter`
NewTeams(count, perTeam, counter) ==
  [t \in 1..count |->
     [id |-> counter + (t - 1) * (1 + perTeam),
      name |-> <<>>,
      players |-> NewPlayers(counter + (t - 1) * (1 + perTeam) + 1, perTeam)]]

handleNumTeamsChange(input) ==
  /\ SetupCountsScreen
  /\ IF input # <<>> /\ Get(input) >= 0
     THEN /\ numTeams' = Get(input)
          /\ teamData' = NewTeams(Get(input), numPlayersPerTeam, globalIdCounter)
          /\ globalIdCounter' = globalIdCounter + Get(input) * (1 + numPlayersPerTeam)
     ELSE IF input = <<>>
     THEN /\ numTeams' = 0
          /\ teamData' = <<>>
          /\ UNCHANGED globalIdCounter
     ELSE UNCHANGED <<numTeams, teamData, globalIdCounter>>
  /\ UNCHANGED <<numPlayersPerTeam, submittedTeamData, matches, matchResults,
                 teamStats, roundNumber, allPlayedPairs, currentMatchViewIndex,
                 screen, store, currentLeagueName, saveDialog, warning>>

Missing(team, value) ==
  IF value > Len(team.players) THEN value - Len(team.players) ELSE 0

RECURSIVE MissingBefore(_, _, _)
MissingBefore(teams, value, t) ==
  IF t <= 1 THEN 0
  ELSE MissingBefore(teams, value, t - 1) + Missing(teams[t - 1], value)

\* players: Array(value).fill(null).map((_, i) => team.players[i] ||
\* {id: generateUniqueId(), name: ''}) over the teams in order
ResizeRosters(teams, value, counter) ==
  [t \in 1..Len(teams) |->
     [teams[t] EXCEPT !.players =
        [i \in 1..value |->
           IF i <= Len(teams[t].players) THEN teams[t].players[i]
           ELSE [id |-> counter + MissingBefore(teams, value, t)
                          + (i - Len(teams[t].players) - 1),
                 name |-> <<>>]]]]

handleNumPlayersPerTeamChange(input) ==
  /\ SetupCountsScreen
  /\ IF input # <<>> /\ Get(input) >= 0
     THEN LET used == MissingBefore(teamData, Get(input), Len(teamData) + 1)
          IN /\ numPlayersPerTeam' = Get(input)
             /\ teamData' = ResizeRosters(teamData, Get(input), globalIdCounter)
             /\ globalIdCounter' = globalIdCounter + used
     ELSE IF input = <<>>
     THEN /\ numPlayersPerTeam' = 0
          /\ teamData' = [t \in 1..Len(teamData) |->
                            [teamData[t] EXCEPT !.players = <<>>]]
          /\ UNCHANGED globalIdCounter
     ELSE UNCHANGED <<numPlayersPerTeam, teamData, globalIdCounter>>
  /\ UNCHANGED <<numTeams, submittedTeamData, matches, matchResults, teamStats,
                 roundNumber, allPlayedPairs, currentMatchViewIndex, screen,
                 store, currentLeagueName, saveDialog, warning>>

handleGoToNamingStep ==
  /\ SetupCountsScreen
  /\ areCountsValid
  /\ appStage' = "namingTeamsAndPlayers"
  /\ currentTeamIndex' = 0
  /\ IF \/ Len(teamData) # numTeams
        \/ (numTeams > 0 /\ (teamData = <<>>
                             \/ Len(teamData[1].players) # numPlayersPerTeam))
     THEN /\ teamData' = NewTeams(numTeams, numPlayersPerTeam, globalIdCounter)
          /\ globalIdCounter' = globalIdCounter + numTeams * (1 + numPlayersPerTeam)
     ELSE UNCHANGED <<teamData, globalIdCounter>>
  /\ UNCHANGED <<numTeams, numPlayersPerTeam, submittedTeamData, matches,
                 matchResults, teamStats, roundNumber, allPlayedPairs,
                 currentMatchViewIndex, store, currentLeagueName, saveDialog,
                 warning>>

BackToSetupCounts ==
  /\ NamingScreen
  /\ appStage' = "setupCounts"
  /\ UNCHANGED <<league, currentTeamIndex, store, currentLeagueName, saveDialog,
                 warning>>

handleNextTeam ==
  /\ NamingScreen
  /\ currentTeamIndex < numTeams - 1
  /\ currentTeamIndex' = currentTeamIndex + 1
  /\ UNCHANGED <<league, appStage, store, currentLeagueName, saveDialog, warning>>

handlePreviousTeam ==
  /\ NamingScreen
  /\ currentTeamIndex > 0
  /\ currentTeamIndex' = currentTeamIndex - 1
  /\ UNCHANGED <<league, appStage, store, currentLeagueName, saveDialog, warning>>

handleTeamNameChange(teamIndex, newName) ==
  /\ NamingScreen
  /\ teamIndex = currentTeamIndex
  /\ teamData' = [teamData EXCEPT ![teamIndex + 1].name = newName]
  /\ UNCHANGED <<numTeams, numPlayersPerTeam, submittedTeamData, matches,
                 matchResults, teamStats, roundNumber, allPlayedPairs,
                 currentMatchViewIndex, globalIdCounter, screen, store,
                 currentLeagueName, saveDialog, warning>>

handlePlayerNameChange(teamIndex, playerIndex, newName) ==
  /\ NamingScreen
  /\ numPlayersPerTeam > 0
  /\ teamIndex = currentTeamIndex
  /\ playerIndex < Len(teamData[teamIndex + 1].players)
  /\ teamData' = [teamData EXCEPT
                    ![teamIndex + 1].players[playerIndex + 1].name = newName]
  /\ UNCHANGED <<numTeams, numPlayersPerTeam, submittedTeamData, matches,
                 matchResults, teamStats, roundNumber, allPlayedPairs,
                 currentMatchViewIndex, globalIdCounter, screen, store,
                 currentLeagueName, saveDialog, warning>>

\* ------------------------------------------------------------------ start
\* the start that leaves the warning modal as it is
startTheGamesKeepsModal(teamsToUse) ==
  /\ submittedTeamData' = teamsToUse
  /\ IF Len(teamsToUse) < 2
     THEN /\ matches' = <<>>
          /\ matchResults' = <<>>
          /\ UNCHANGED <<teamStats, allPlayedPairs, roundNumber, warning,
                         currentMatchViewIndex>>
     ELSE LET generated == generateAllRoundRobinMatches(teamsToUse)
          IN /\ teamStats' = [k \in 1..Len(teamsToUse) |-> ZeroStat(teamsToUse[k])]
             /\ matches' = generated.newMatches
             /\ matchResults' = generated.newMatchResults
             /\ allPlayedPairs' = <<>>
             /\ roundNumber' = 1
             /\ UNCHANGED warning
             /\ currentMatchViewIndex' = 0
  /\ UNCHANGED <<setupVars, screen, store, currentLeagueName, saveDialog>>

startTheGames(teamsToUse) ==
  /\ submittedTeamData' = teamsToUse
  /\ IF Len(teamsToUse) < 2
     THEN /\ matches' = <<>>
          /\ matchResults' = <<>>
          /\ UNCHANGED <<teamStats, allPlayedPairs, roundNumber, warning,
                         currentMatchViewIndex>>
     ELSE LET generated == generateAllRoundRobinMatches(teamsToUse)
          IN /\ teamStats' = [k \in 1..Len(teamsToUse) |-> ZeroStat(teamsToUse[k])]
             /\ matches' = generated.newMatches
             /\ matchResults' = generated.newMatchResults
             /\ allPlayedPairs' = <<>>
             /\ roundNumber' = 1
             /\ showWarningModal' = FALSE
             /\ warningModalType' = "alert"
             /\ UNCHANGED warningMessage
             /\ currentMatchViewIndex' = 0
  /\ UNCHANGED <<setupVars, screen, store, currentLeagueName, saveDialog>>

unnamedTeamsCount ==
  Cardinality({t \in 1..Len(teamData) : Trim(teamData[t].name) = <<>>})
unnamedPlayersCount ==
  IF numPlayersPerTeam > 0
  THEN Cardinality(UNION {{<<t, p>> : p \in {q \in 1..Len(teamData[t].players) :
                                               Trim(teamData[t].players[q].name) = <<>>}} :
                          t \in 1..Len(teamData)})
  ELSE 0

\* the names as typed, trimmed
TrimmedTeams(teams) ==
  [t \in 1..Len(teams) |->
     [id |-> teams[t].id,
      name |-> Trim(teams[t].name),
      players |-> [p \in 1..Len(teams[t].players) |->
                     [id |-> teams[t].players[p].id,
                      name |-> Trim(teams[t].players[p].name)]]]]

\* the names trimmed, a blank one replaced by its default
DefaultedTeams(teams) ==
  [t \in 1..Len(teams) |->
     [id |-> teams[t].id,
      name |-> IF Trim(teams[t].name) = <<>> THEN DefaultTeamName(t - 1)
               ELSE Trim(teams[t].name),
      players |-> [p \in 1..Len(teams[t].players) |->
                     [id |-> teams[t].players[p].id,
                      name |-> IF Trim(teams[t].players[p].name) = <<>>
                               THEN DefaultPlayerName(p - 1)
                               ELSE Trim(teams[t].players[p].name)]]]]

handleStartGamesClick ==
  /\ NamingScreen
  /\ ~(currentTeamIndex < numTeams - 1)
  /\ IF unnamedTeamsCount > 0 \/ unnamedPlayersCount > 0
     THEN /\ warningMessage' = "unnamedTeamsOrPlayers"
          /\ warningModalType' = "confirm"
          /\ showWarningModal' = TRUE
          /\ UNCHANGED <<league, screen, store, currentLeagueName, saveDialog>>
     ELSE startTheGames(TrimmedTeams(teamData))

handleConfirmStartGames ==
  /\ WarningModalShown
  /\ warningModalType = "confirm"
  /\ startTheGames(DefaultedTeams(teamData))

handleCancelStartGames ==
  /\ WarningModalShown
  /\ warningModalType = "confirm"
  /\ showWarningModal' = FALSE
  /\ warningMessage' = ""
  /\ warningModalType' = "alert"
  /\ UNCHANGED <<league, screen, store, currentLeagueName, saveDialog>>

handleDismissAlert ==
  /\ WarningModalShown
  /\ warningModalType # "confirm"
  /\ showWarningModal' = FALSE
  /\ warningMessage' = ""
  /\ warningModalType' = "alert"
  /\ UNCHANGED <<league, screen, store, currentLeagueName, saveDialog>>

\* ------------------------------------------------------------------ ledger
\* what a ledger handler leaves alone besides matchResults
LedgerFrame ==
  UNCHANGED <<numTeams, numPlayersPerTeam, teamData, submittedTeamData, matches,
              teamStats, roundNumber, allPlayedPairs, currentMatchViewIndex,
              globalIdCounter, screen, store, currentLeagueName, saveDialog,
              warning>>

Shown == matchResults[currentMatchViewIndex + 1]
\* the inputs of the card are disabled on a saved result that is not edited
CardEditable == ~Shown.saved \/ Shown.isEditing

Scorers(m, teamNum) == IF teamNum = 1 THEN m.team1GoalScorers ELSE m.team2GoalScorers
WithScorers(m, teamNum, scorers) ==
  IF teamNum = 1 THEN [m EXCEPT !.team1GoalScorers = scorers]
  ELSE [m EXCEPT !.team2GoalScorers = scorers]
ScoreOf(m, teamNum) == IF teamNum = 1 THEN m.team1Score ELSE m.team2Score
TeamIdOf(m, teamNum) == IF teamNum = 1 THEN m.team1Id ELSE m.team2Id
\* `typeof score === 'number' ? score : 0`
ScoreValue(score) == IF score = <<>> THEN 0 ELSE Get(score)

handleScoreChange(matchIndex, team, value) ==
  /\ MatchInputSection
  /\ matchIndex = currentMatchViewIndex
  /\ CardEditable
  /\ matchResults' =
       [matchResults EXCEPT ![matchIndex + 1] =
          IF team = "team1"
          THEN [@ EXCEPT !.team1Score = value, !.goalScorerMismatch = FALSE]
          ELSE [@ EXCEPT !.team2Score = value, !.goalScorerMismatch = FALSE]]
  /\ LedgerFrame

handlePlayerGoalChange(matchIndex, teamNum, scorerIndex, value) ==
  /\ MatchInputSection
  /\ matchIndex = currentMatchViewIndex
  /\ numPlayersPerTeam > 0
  /\ CardEditable
  /\ scorerIndex < Len(Scorers(Shown, teamNum))
  /\ LET goals == IF value = <<>> THEN 0 ELSE Get(value)
         newGoalScorers ==
           [Scorers(Shown, teamNum) EXCEPT ![scorerIndex + 1].goals = goals]
     IN matchResults' =
          [matchResults EXCEPT ![matchIndex + 1] =
             [WithScorers(@, teamNum, newGoalScorers)
                EXCEPT !.goalScorerMismatch = FALSE]]
  /\ LedgerFrame

\* the team whose roster the dropdown of a side lists: found by fixture name
DropdownTeam(teamNum) ==
  IndexByName(submittedTeamData, matches[currentMatchViewIndex + 1][teamNum])

showScorerDropdown(teamNum) ==
  /\ numPlayersPerTeam > 0
  /\ CardEditable
  /\ ScoreValue(ScoreOf(Shown, teamNum)) > 0
  /\ SumGoals(Scorers(Shown, teamNum)) < ScoreValue(ScoreOf(Shown, teamNum))

\* the push of an entry with no goal yet
SelectedScorersZero(scorers, teamPlayers, playerId) ==
  IF \E k \in 1..Len(scorers) : scorers[k].playerId = playerId
  THEN scorers
  ELSE LET p == IndexById(teamPlayers, playerId)
       IN IF p > 0
          THEN Append(scorers, [playerId |-> teamPlayers[p].id,
                                playerName |-> teamPlayers[p].name,
                                goals |-> 0])
          ELSE scorers

\* the push without the test for a player already in the list
SelectedScorersUntested(scorers, teamPlayers, playerId) ==
  LET p == IndexById(teamPlayers, playerId)
  IN IF p > 0
     THEN Append(scorers, [playerId |-> teamPlayers[p].id,
                           playerName |-> teamPlayers[p].name,
                           goals |-> 1])
     ELSE scorers

\* the list after the handler's push
SelectedScorers(scorers, teamPlayers, playerId) ==
  IF \E k \in 1..Len(scorers) : scorers[k].playerId = playerId
  THEN scorers
  ELSE LET p == IndexById(teamPlayers, playerId)
       IN IF p > 0
          THEN Append(scorers, [playerId |-> teamPlayers[p].id,
                                playerName |-> teamPlayers[p].name,
                                goals |-> 1])
          ELSE scorers

\* the selection that lists and looks up the roster of the opposing side
handleSelectGoalScorerOfOpponent(matchIndex, teamNum, playerId) ==
  /\ MatchInputSection
  /\ matchIndex = currentMatchViewIndex
  /\ DropdownTeam(3 - teamNum) > 0
  /\ showScorerDropdown(teamNum)
  /\ \E p \in 1..Len(submittedTeamData[DropdownTeam(3 - teamNum)].players) :
       submittedTeamData[DropdownTeam(3 - teamNum)].players[p].id = playerId
  /\ LET k == IndexById(submittedTeamData, TeamIdOf(Shown, 3 - teamNum))
         teamPlayers == IF k > 0 THEN submittedTeamData[k].players ELSE <<>>
     IN matchResults' =
          [matchResults EXCEPT ![matchIndex + 1] =
             [WithScorers(@, teamNum,
                          SelectedScorers(Scorers(@, teamNum), teamPlayers, playerId))
                EXCEPT !.goalScorerMismatch = FALSE]]
  /\ LedgerFrame

handleSelectGoalScorer(matchIndex, teamNum, playerId) ==
  /\ MatchInputSection
  /\ matchIndex = currentMatchViewIndex
  /\ DropdownTeam(teamNum) > 0
  /\ showScorerDropdown(teamNum)
  /\ \E p \in 1..Len(submittedTeamData[DropdownTeam(teamNum)].players) :
       submittedTeamData[DropdownTeam(teamNum)].players[p].id = playerId
  /\ LET k == IndexById(submittedTeamData, TeamIdOf(Shown, teamNum))
         teamPlayers == IF k > 0 THEN submittedTeamData[k].players ELSE <<>>
     IN matchResults' =
          [matchResults EXCEPT ![matchIndex + 1] =
             [WithScorers(@, teamNum,
                          SelectedScorers(Scorers(@, teamNum), teamPlayers, playerId))
                EXCEPT !.goalScorerMismatch = FALSE]]
  /\ LedgerFrame

handleRemoveGoalScorer(matchIndex, teamNum, scorerIdToRemove) ==
  /\ MatchInputSection
  /\ matchIndex = currentMatchViewIndex
  /\ numPlayersPerTeam > 0
  /\ CardEditable
  /\ \E k \in 1..Len(Scorers(Shown, teamNum)) :
       Scorers(Shown, teamNum)[k].playerId = scorerIdToRemove
  /\ matchResults' =
       [matchResults EXCEPT ![matchIndex + 1] =
          [WithScorers(@, teamNum,
                       SelectSeq(Scorers(@, teamNum),
                                 LAMBDA sc : sc.playerId # scorerIdToRemove))
             EXCEPT !.goalScorerMismatch = FALSE]]
  /\ LedgerFrame

\* the validation of handleSaveResult
\* the validation with the test of the first score only
ScoreMissingFirstOnly(m) == m.team1Score = <<>>
ScoreMissing(m) == m.team1Score = <<>> \/ m.team2Score = <<>>
\* Number(score): the empty text converts to 0
Number(score) == IF score = <<>> THEN 0 ELSE Get(score)
\* the validation with the comparison of the first side only
ScorerMismatchFirstOnly(m) ==
  /\ numPlayersPerTeam > 0
  /\ SumGoals(m.team1GoalScorers) # Number(m.team1Score)
ScorerMismatch(m) ==
  /\ numPlayersPerTeam > 0
  /\ \/ SumGoals(m.team1GoalScorers) # Number(m.team1Score)
     \/ SumGoals(m.team2GoalScorers) # Number(m.team2Score)

\* the standings after a successful save of resultToSave
SavedStats(stats, resultToSave, teams) ==
  LET reverted ==
        IF resultToSave.saved /\ resultToSave.isEditing
           /\ IsDefined(resultToSave.originalScores)
        THEN applyMatchStatsToTeams(
               stats,
               [resultToSave EXCEPT
                  !.team1Score = Get(resultToSave.originalScores).team1,
                  !.team2Score = Get(resultToSave.originalScores).team2],
               teams, -1)
        ELSE stats
  IN applyMatchStatsToTeams(reverted, resultToSave, teams, 1)

\* the match result marked saved with its snapshots left in place
MarkSavedKeepsSnapshots(m) ==
  [m EXCEPT !.saved = TRUE, !.isEditing = FALSE, !.goalScorerMismatch = FALSE]

\* the match result after a successful save
MarkSaved(m) ==
  [m EXCEPT !.saved = TRUE, !.isEditing = FALSE, !.originalScores = Undefined,
            !.originalGoalScorers = Undefined, !.goalScorerMismatch = FALSE]

\* new Set(prev).add(key): insertion order, no duplicate
SetAdd(pairs, key) ==
  IF \E k \in 1..Len(pairs) : pairs[k] = key THEN pairs ELSE Append(pairs, key)

\* The Save button is rendered while the card is editable and is disabled
\* while a score is '' (line 1379); the handler tests the scores again, and
\* it is taken here whenever the button is rendered, so that its own test
\* decides.
handleSaveResult(matchIndex) ==
  /\ MatchInputSection
  /\ matchIndex = currentMatchViewIndex
  /\ CardEditable
  /\ LET resultToSave == matchResults[matchIndex + 1]
     IN IF ScoreMissing(resultToSave)
        THEN /\ warningMessage' = "missingScores"
             /\ warningModalType' = "alert"
             /\ showWarningModal' = TRUE
             /\ UNCHANGED <<league, screen, store, currentLeagueName, saveDialog>>
        ELSE IF ScorerMismatch(resultToSave)
        THEN /\ warningMessage' = "goalScorerMismatch"
             /\ warningModalType' = "alert"
             /\ showWarningModal' = TRUE
             /\ matchResults' =
                  [matchResults EXCEPT ![matchIndex + 1].goalScorerMismatch = TRUE]
             /\ UNCHANGED <<numTeams, numPlayersPerTeam, teamData,
                            submittedTeamData, matches, teamStats, roundNumber,
                            allPlayedPairs, currentMatchViewIndex,
                            globalIdCounter, screen, store, currentLeagueName,
                            saveDialog>>
        ELSE LET newResults ==
                   [matchResults EXCEPT ![matchIndex + 1] = MarkSaved(@)]
                 match == matches[matchIndex + 1]
             IN /\ teamStats' = SavedStats(teamStats, resultToSave, submittedTeamData)
                /\ matchResults' = newResults
                /\ currentMatchViewIndex' = findFirstUnsavedMatchIndex(newResults)
                /\ allPlayedPairs' =
                     SetAdd(allPlayedPairs, normalizePair(match[1], match[2]))
                /\ UNCHANGED <<numTeams, numPlayersPerTeam, teamData,
                               submittedTeamData, matches, roundNumber,
                               globalIdCounter, screen, store,
                               currentLeagueName, saveDialog, warning>>

\* the edit entry that also resets the saved flag
EnterEditUnsaves(m) ==
  [m EXCEPT !.saved = FALSE,
            !.isEditing = TRUE,
            !.originalScores = Some([team1 |-> m.team1Score, team2 |-> m.team2Score]),
            !.originalGoalScorers =
               Some([team1 |-> m.team1GoalScorers, team2 |-> m.team2GoalScorers]),
            !.goalScorerMismatch = FALSE]

EnterEdit(m) ==
  [m EXCEPT !.isEditing = TRUE,
            !.originalScores = Some([team1 |-> m.team1Score, team2 |-> m.team2Score]),
            !.originalGoalScorers =
               Some([team1 |-> m.team1GoalScorers, team2 |-> m.team2GoalScorers]),
            !.goalScorerMismatch = FALSE]

handleEditResult(matchIndex) ==
  /\ MatchInputSection
  /\ matchIndex = currentMatchViewIndex
  /\ ~CardEditable
  /\ matchResults' = [matchResults EXCEPT ![matchIndex + 1] = EnterEdit(@)]
  /\ LedgerFrame

\* the cancel that puts the match result back among the unsaved ones
CancelEditUnsaves(m) ==
  IF IsDefined(m.originalScores) /\ IsDefined(m.originalGoalScorers)
  THEN [m EXCEPT !.team1Score = Get(m.originalScores).team1,
                 !.team2Score = Get(m.originalScores).team2,
                 !.team1GoalScorers = Get(m.originalGoalScorers).team1,
                 !.team2GoalScorers = Get(m.originalGoalScorers).team2,
                 !.saved = FALSE,
                 !.isEditing = FALSE,
                 !.originalScores = Undefined,
                 !.originalGoalScorers = Undefined,
                 !.goalScorerMismatch = FALSE]
  ELSE [m EXCEPT !.saved = FALSE, !.isEditing = FALSE, !.goalScorerMismatch = FALSE]

\* the cancel that restores the scores and leaves the scorer lists as edited
CancelEditKeepsScorers(m) ==
  IF IsDefined(m.originalScores) /\ IsDefined(m.originalGoalScorers)
  THEN [m EXCEPT !.team1Score = Get(m.originalScores).team1,
                 !.team2Score = Get(m.originalScores).team2,
                 !.isEditing = FALSE,
                 !.originalScores = Undefined,
                 !.originalGoalScorers = Undefined,
                 !.goalScorerMismatch = FALSE]
  ELSE [m EXCEPT !.isEditing = FALSE, !.goalScorerMismatch = FALSE]

CancelEdit(m) ==
  IF IsDefined(m.originalScores) /\ IsDefined(m.originalGoalScorers)
  THEN [m EXCEPT !.team1Score = Get(m.originalScores).team1,
                 !.team2Score = Get(m.originalScores).team2,
                 !.team1GoalScorers = Get(m.originalGoalScorers).team1,
                 !.team2GoalScorers = Get(m.originalGoalScorers).team2,
                 !.isEditing = FALSE,
                 !.originalScores = Undefined,
                 !.originalGoalScorers = Undefined,
                 !.goalScorerMismatch = FALSE]
  ELSE [m EXCEPT !.isEditing = FALSE, !.goalScorerMismatch = FALSE]

handleCancelEdit(matchIndex) ==
  /\ MatchInputSection
  /\ matchIndex = currentMatchViewIndex
  /\ Shown.isEditing
  /\ matchResults' = [matchResults EXCEPT ![matchIndex + 1] = CancelEdit(@)]
  /\ LedgerFrame

\* the step to the next match that does not stop at the last one
handleNextMatchPastEnd ==
  /\ MatchInputSection
  /\ currentMatchViewIndex' = currentMatchViewIndex + 1
  /\ UNCHANGED <<numTeams, numPlayersPerTeam, teamData, submittedTeamData,
                 matches, matchResults, teamStats, roundNumber, allPlayedPairs,
                 globalIdCounter, screen, store, currentLeagueName, saveDialog,
                 warning>>

handleNextMatch ==
  /\ MatchInputSection
  /\ currentMatchViewIndex # Len(matches) - 1
  /\ currentMatchViewIndex' =
       (IF currentMatchViewIndex + 1 < Len(matches) - 1
        THEN currentMatchViewIndex + 1 ELSE Len(matches) - 1)
  /\ UNCHANGED <<numTeams, numPlayersPerTeam, teamData, submittedTeamData,
                 matches, matchResults, teamStats, roundNumber, allPlayedPairs,
                 globalIdCounter, screen, store, currentLeagueName, saveDialog,
                 warning>>

handlePreviousMatch ==
  /\ MatchInputSection
  /\ currentMatchViewIndex # 0
  /\ currentMatchViewIndex' =
       (IF currentMatchViewIndex - 1 > 0 THEN currentMatchViewIndex - 1 ELSE 0)
  /\ UNCHANGED <<numTeams, numPlayersPerTeam, teamData, submittedTeamData,
                 matches, matchResults, teamStats, roundNumber, allPlayedPairs,
                 globalIdCounter, screen, store, currentLeagueName, saveDialog,
                 warning>>

\* the prompt whose answer is not looked at
ConfirmSkipped(answer) == TRUE
\* if (window.confirm(...)): the prompt answers `answer`
Confirmed(answer) == answer

\* window.confirm answers `confirmed`
handleResetLeague(confirmed) ==
  /\ MatchInputSection
  /\ allResultsIn
  /\ IF Confirmed(confirmed)
     THEN resetGameStates /\ UNCHANGED <<store, saveDialog, warning>>
     ELSE UNCHANGED vars

handleExitLeague(confirmed) ==
  /\ LeagueHeader
  /\ IF Confirmed(confirmed)
     THEN resetGameStates /\ UNCHANGED <<store, saveDialog, warning>>
     ELSE UNCHANGED vars

\* ------------------------------------------------------------------ store
handleSaveLeagueClick ==
  /\ LeagueHeader
  /\ showSaveLeagueModal' = TRUE
  /\ saveLeagueInputName' =
       (IF IsDefined(currentLeagueName) /\ Get(currentLeagueName) # <<>>
        THEN Get(currentLeagueName) ELSE <<>>)
  /\ showOverwriteConfirm' = FALSE
  /\ UNCHANGED <<league, screen, store, currentLeagueName, leagueNameToOverwrite,
                 warning>>

\* typing into the name input of the save dialog
SaveLeagueInputChange(value) ==
  /\ SaveLeagueModalShown
  /\ ~showOverwriteConfirm
  /\ saveLeagueInputName' = value
  /\ UNCHANGED <<league, screen, store, currentLeagueName, showSaveLeagueModal,
                 showOverwriteConfirm, leagueNameToOverwrite, warning>>

\* a match result as handleSaveLeagueConfirm and handleLoadLeague rewrite it:
\* {...m, isEditing: false, originalScores: undefined,
\*  originalGoalScorers: undefined}
\* the rewrite that copies the match result as it is: {...m}
ClearEditingCopies(m) == m
ClearEditing(m) ==
  [team1Id |-> m.team1Id, team2Id |-> m.team2Id,
   team1Score |-> m.team1Score, team2Score |-> m.team2Score,
   team1GoalScorers |-> m.team1GoalScorers,
   team2GoalScorers |-> m.team2GoalScorers,
   saved |-> m.saved, goalScorerMismatch |-> m.goalScorerMismatch,
   isEditing |-> FALSE, originalScores |-> Undefined,
   originalGoalScorers |-> Undefined]

stateToSave ==
  [numTeams |-> numTeams,
   numPlayersPerTeam |-> numPlayersPerTeam,
   submittedTeamData |-> submittedTeamData,
   matchResults |-> [k \in 1..Len(matchResults) |-> ClearEditing(matchResults[k])],
   teamStats |-> teamStats,
   roundNumber |-> roundNumber,
   allPlayedPairs |-> allPlayedPairs,
   globalIdCounterValue |-> globalIdCounter]

\* {[leagueName]: state}, without the leagues stored before
PutLeagueOnly(leagues, leagueName, state) ==
  [name \in {leagueName} |-> state]
\* {...prevLeagues, [leagueName]: state}
PutLeague(leagues, leagueName, state) ==
  [name \in DOMAIN leagues \cup {leagueName} |->
     IF name = leagueName THEN state ELSE leagues[name]]

\* the delete that empties the store
DropAllLeagues(leagues, leagueName) == NoLeagues
\* a copy of prevLeagues with leagueName deleted
DropLeague(leagues, leagueName) ==
  [name \in DOMAIN leagues \ {leagueName} |-> leagues[name]]

\* the test that never asks
OverwriteUnasked(leagueName) == FALSE
\* savedLeagues[leagueName] && !showOverwriteConfirm
OverwriteUnconfirmed(leagueName) ==
  leagueName \in DOMAIN savedLeagues /\ ~showOverwriteConfirm

handleSaveLeagueConfirm ==
  /\ SaveLeagueModalShown
  /\ LET leagueName == Trim(saveLeagueInputName)
     IN IF leagueName = <<>>
        THEN /\ warningMessage' = "emptyLeagueName"
             /\ warningModalType' = "alert"
             /\ showWarningModal' = TRUE
             /\ UNCHANGED <<league, screen, store, currentLeagueName, saveDialog>>
        ELSE IF OverwriteUnconfirmed(leagueName)
        THEN /\ leagueNameToOverwrite' = leagueName
             /\ showOverwriteConfirm' = TRUE
             /\ UNCHANGED <<league, screen, store, currentLeagueName,
                            showSaveLeagueModal, saveLeagueInputName, warning>>
        ELSE LET newLeagues == PutLeague(savedLeagues, leagueName, stateToSave)
             IN /\ savedLeagues' = newLeagues
                /\ localStorage' = Some(JsonLeagues(newLeagues))
                /\ currentLeagueName' = Some(leagueName)
                /\ showSaveLeagueModal' = FALSE
                /\ showOverwriteConfirm' = FALSE
                /\ saveLeagueInputName' = <<>>
                /\ warningMessage' = ""
                /\ UNCHANGED <<league, screen, leagueNameToOverwrite,
                               showWarningModal, warningModalType>>

handleCancelSaveLeague ==
  /\ SaveLeagueModalShown
  /\ showSaveLeagueModal' = FALSE
  /\ showOverwriteConfirm' = FALSE
  /\ saveLeagueInputName' = <<>>
  /\ UNCHANGED <<league, screen, store, currentLeagueName, leagueNameToOverwrite,
                 warning>>

\* [team1?.name || unknown, team2?.name || unknown] for every stored result
LoadedMatches(leagueToLoad) ==
  [k \in 1..Len(leagueToLoad.matchResults) |->
     LET mr == leagueToLoad.matchResults[k]
         k1 == IndexById(leagueToLoad.submittedTeamData, mr.team1Id)
         k2 == IndexById(leagueToLoad.submittedTeamData, mr.team2Id)
         name1 == IF k1 > 0 THEN leagueToLoad.submittedTeamData[k1].name ELSE <<>>
         name2 == IF k2 > 0 THEN leagueToLoad.submittedTeamData[k2].name ELSE <<>>
     IN <<IF name1 = <<>> THEN UnknownName ELSE name1,
          IF name2 = <<>> THEN UnknownName ELSE name2>>]

\* new Set(array)
RECURSIVE SetFromArray(_)
SetFromArray(array) ==
  IF array = <<>> THEN <<>>
  ELSE SetAdd(SetFromArray(SubSeq(array, 1, Len(array) - 1)), array[Len(array)])

\* the load that leaves the identity counter as it is
IdCounterKept(leagueToLoad) == globalIdCounter
\* globalIdCounter = leagueToLoad.globalIdCounterValue
RestoredIdCounter(leagueToLoad) == leagueToLoad.globalIdCounterValue

handleLoadLeague(leagueName) ==
  /\ LoadLeagueOptionsScreen
  /\ leagueName \in DOMAIN savedLeagues
  /\ LET leagueToLoad == savedLeagues[leagueName]
         cleanedMatchResults ==
           [k \in 1..Len(leagueToLoad.matchResults) |->
              ClearEditing(leagueToLoad.matchResults[k])]
     IN /\ numTeams' = leagueToLoad.numTeams
        /\ numPlayersPerTeam' = leagueToLoad.numPlayersPerTeam
        /\ submittedTeamData' = leagueToLoad.submittedTeamData
        /\ teamData' = leagueToLoad.submittedTeamData
        /\ matches' = LoadedMatches(leagueToLoad)
        /\ matchResults' = cleanedMatchResults
        /\ teamStats' = leagueToLoad.teamStats
        /\ roundNumber' = leagueToLoad.roundNumber
        /\ allPlayedPairs' = SetFromArray(leagueToLoad.allPlayedPairs)
        /\ globalIdCounter' = RestoredIdCounter(leagueToLoad)
        /\ currentLeagueName' = Some(leagueName)
        /\ appStage' = (IF leagueToLoad.roundNumber > 0
                        THEN "namingTeamsAndPlayers" ELSE "setupCounts")
        /\ currentTeamIndex' = 0
        /\ currentMatchViewIndex' = findFirstUnsavedMatchIndex(cleanedMatchResults)
  /\ UNCHANGED <<store, saveDialog, warning>>

handleDeleteLeague(leagueName, confirmed) ==
  /\ LoadLeagueOptionsScreen
  /\ leagueName \in DOMAIN savedLeagues
  /\ IF Confirmed(confirmed)
     THEN LET newLeagues == DropLeague(savedLeagues, leagueName)
          IN /\ savedLeagues' = newLeagues
             /\ localStorage' = Some(JsonLeagues(newLeagues))
             /\ IF currentLeagueName = Some(leagueName)
                THEN resetGameStates
                ELSE /\ appStage' = "initialScreen"
                     /\ UNCHANGED <<league, currentTeamIndex, currentLeagueName>>
             /\ UNCHANGED <<saveDialog, warning>>
     ELSE UNCHANGED vars

\* The page is loaded again: the module and the component are initialised
\* anew and the mount effect reads the saved leagues from localStorage.
Reload ==
  /\ IsDefined(localStorage)
  /\ ResetLeague
  /\ appStage' = "initialScreen"
  /\ savedLeagues' = loadSavedLeaguesFromStorage(localStorage)
  /\ showSaveLeagueModal' = FALSE
  /\ saveLeagueInputName' = <<>>
  /\ showOverwriteConfirm' = FALSE
  /\ leagueNameToOverwrite' = <<>>
  /\ showWarningModal' = FALSE
  /\ warningMessage' = ""
  /\ warningModalType' = "alert"
  /\ UNCHANGED localStorage

\* ------------------------------------------------------------------ top scorers
UnknownTeam == <<"U">>

\* the scorer entries in the order the two forEach loops visit them, each with
\* the name of the team its side's identity refers to
SideEntries(scorers, teams, teamId) ==
  LET k == IndexById(teams, teamId)
      teamName == IF k > 0 THEN teams[k].name ELSE UnknownTeam
  IN [e \in 1..Len(scorers) |->
        [playerId |-> scorers[e].playerId, name |-> scorers[e].playerName,
         goals |-> scorers[e].goals, teamName |-> teamName]]

\* the visit of the saved match results only
RECURSIVE ScorerEntriesOfSaved(_, _)
ScorerEntriesOfSaved(results, teams) ==
  IF results = <<>> THEN <<>>
  ELSE (IF Head(results).saved
        THEN SideEntries(Head(results).team1GoalScorers, teams, Head(results).team1Id)
             \o SideEntries(Head(results).team2GoalScorers, teams, Head(results).team2Id)
        ELSE <<>>)
       \o ScorerEntriesOfSaved(Tail(results), teams)

RECURSIVE ScorerEntries(_, _)
ScorerEntries(results, teams) ==
  IF results = <<>> THEN <<>>
  ELSE SideEntries(Head(results).team1GoalScorers, teams, Head(results).team1Id)
       \o SideEntries(Head(results).team2GoalScorers, teams, Head(results).team2Id)
       \o ScorerEntries(Tail(results), teams)

\* playerGoals after the visit of these entries: one record per key, in the
\* order in which the keys were first set
RECURSIVE PlayerGoals(_)
PlayerGoals(entries) ==
  IF entries = <<>> THEN <<>>
  ELSE LET before == PlayerGoals(SubSeq(entries, 1, Len(entries) - 1))
           scorer == entries[Len(entries)]
           k == IndexById([e \in 1..Len(before) |-> [id |-> before[e].playerId]],
                          scorer.playerId)
       IN IF k > 0
          THEN [before EXCEPT ![k].goals = @ + scorer.goals]
          ELSE Append(before, scorer)

\* Array.prototype.sort((a, b) => b.goals - a.goals): stable, descending
RECURSIVE SortByGoals(_)
SortByGoals(list) ==
  IF list = <<>> THEN <<>>
  ELSE LET sortedFront == SortByGoals(SubSeq(list, 1, Len(list) - 1))
           last == list[Len(list)]
           ahead == {k \in 1..Len(sortedFront) : sortedFront[k].goals >= last.goals}
       IN SubSeq(sortedFront, 1, Cardinality(ahead)) \o <<last>>
          \o SubSeq(sortedFront, Cardinality(ahead) + 1, Len(sortedFront))

\* the comparator that leaves out the goal difference
CompareStatsNoGd(a, b) ==
  IF b.points - a.points # 0 THEN b.points - a.points ELSE b.gf - a.gf
\* (a, b) => b.points - a.points || b.gd - a.gd || b.gf - a.gf
CompareStats(a, b) ==
  IF b.points - a.points # 0 THEN b.points - a.points
  ELSE IF b.gd - a.gd # 0 THEN b.gd - a.gd
  ELSE b.gf - a.gf

\* [...list].sort(CompareStats): stable, an entry goes behind every entry
\* that the comparator does not put behind it
RECURSIVE SortStats(_)
SortStats(list) ==
  IF list = <<>> THEN <<>>
  ELSE LET sortedFront == SortStats(SubSeq(list, 1, Len(list) - 1))
           last == list[Len(list)]
           ahead == {k \in 1..Len(sortedFront) :
                       CompareStats(sortedFront[k], last) <= 0}
       IN SubSeq(sortedFront, 1, Cardinality(ahead)) \o <<last>>
          \o SubSeq(sortedFront, Cardinality(ahead) + 1, Len(sortedFront))

sortedTeamStats == SortStats(teamStats)

calculateTopScorers ==
  LET sortedScorers == SortByGoals(PlayerGoals(ScorerEntries(matchResults, submittedTeamData)))
  IN [k \in 1..Len(sortedScorers) |->
        [name |-> sortedScorers[k].name, goals |-> sortedScorers[k].goals,
         teamName |-> sortedScorers[k].teamName]]

\* ------------------------------------------------------------------ next
TeamNums == {1, 2}
Sides == {"team1", "team2"}

\* The setup flow for a user who types these counts and names and lets the
\* identity counter grow to idLimit at most.
SetupActions(teamCounts, playerCounts, teamNames, idLimit) ==
  \/ handleStartNewLeague
  \/ handleContinueLeague
  \/ BackToInitialScreen
  \/ \E input \in teamCounts :
       handleNumTeamsChange(input) /\ globalIdCounter' <= idLimit
  \/ \E input \in playerCounts :
       handleNumPlayersPerTeamChange(input) /\ globalIdCounter' <= idLimit
  \/ handleGoToNamingStep /\ globalIdCounter' <= idLimit
  \/ BackToSetupCounts
  \/ handleNextTeam
  \/ handlePreviousTeam
  \/ \E name \in teamNames : handleTeamNameChange(currentTeamIndex, name)
  \/ handleStartGamesClick
  \/ handleConfirmStartGames
  \/ handleCancelStartGames
  \/ handleDismissAlert

PlayerNaming(playerNames) ==
  \E p \in 0..(numPlayersPerTeam - 1), name \in playerNames :
    handlePlayerNameChange(currentTeamIndex, p, name)

LedgerActions ==
  \/ \E side \in Sides, value \in ScoreInputs :
       handleScoreChange(currentMatchViewIndex, side, value)
  \/ handleSaveResult(currentMatchViewIndex)
  \/ handleEditResult(currentMatchViewIndex)
  \/ handleCancelEdit(currentMatchViewIndex)
  \/ \E confirmed \in BOOLEAN : handleResetLeague(confirmed)

Navigation ==
  \/ handleNextMatch
  \/ handlePreviousMatch

ExitLeague == \E confirmed \in BOOLEAN : handleExitLeague(confirmed)

ScorerActions ==
  \/ \E teamNum \in TeamNums, playerId \in 0..MaxId :
       handleSelectGoalScorer(currentMatchViewIndex, teamNum, playerId)
  \/ \E teamNum \in TeamNums, scorerIndex \in 0..(numPlayersPerTeam - 1),
        value \in GoalInputs :
       handlePlayerGoalChange(currentMatchViewIndex, teamNum, scorerIndex, value)
  \/ \E teamNum \in TeamNums, playerId \in 0..MaxId :
       handleRemoveGoalScorer(currentMatchViewIndex, teamNum, playerId)

SaveDialog(leagueNames) ==
  \/ \E value \in leagueNames : SaveLeagueInputChange(value)
  \/ handleSaveLeagueConfirm
  \/ handleCancelSaveLeague

LoadOptions ==
  \/ \E name \in DOMAIN savedLeagues : handleLoadLeague(name)
  \/ \E name \in DOMAIN savedLeagues, confirmed \in BOOLEAN :
       handleDeleteLeague(name, confirmed)

\* the identities of a league of two teams with rosters of perTeam players
TwoTeamIds(perTeam) == 2 * (1 + perTeam)

\* The league of two teams without rosters: it is played, persisted once
\* (when it has neither been persisted nor loaded before), left, loaded back
\* and played on.
Next ==
  \/ SetupActions(TwoTeams, NoPlayers, BlankNames, TwoTeamIds(0))
  \/ LedgerActions
  \/ ExitLeague
  \/ currentLeagueName = Undefined /\ handleSaveLeagueClick
  \/ SaveDialog(OneLeagueName)
  \/ LoadOptions

Spec == Init /\ [][Next]_vars

\* The setup flow alone, with every count and name the inputs deliver, and
\* the walk through the fixtures it generates.
NextSetup ==
  \/ SetupActions(TeamCountInputs, PlayerCountInputs, TeamNameInputs, MaxId)
  \/ PlayerNaming(PlayerNameInputs)
  \/ Navigation
  \/ ExitLeague

SpecSetup == Init /\ [][NextSetup]_vars

\* The league of two teams with rosters, played in one session.
NextLedger ==
  \/ SetupActions(TwoTeams, SmallRosters, BlankNames, TwoTeamIds(1))
  \/ PlayerNaming(BlankNames)
  \/ LedgerActions
  \/ ScorerActions
  \/ ExitLeague

SpecLedger == Init /\ [][NextLedger]_vars

\* The league of two teams with rosters in a store that is empty: it is set
\* up and played, then persisted, and from then on only left, reloaded,
\* loaded back and deleted.
NextRoundTrip ==
  \/ /\ savedLeagues = NoLeagues
     /\ currentLeagueName = Undefined
     /\ \/ SetupActions(TwoTeams, SmallRosters, BlankNames, TwoTeamIds(1))
        \/ LedgerActions
        \/ ScorerActions
        \/ handleSaveLeagueClick
  \/ handleContinueLeague
  \/ BackToInitialScreen
  \/ handleDismissAlert
  \/ ExitLeague
  \/ SaveDialog(LeagueNameInputs)
  \/ LoadOptions
  \/ Reload

SpecRoundTrip == Init /\ [][NextRoundTrip]_vars

\* The store with two names: leagues of two teams without rosters are set
\* up, given a first score, persisted under either name at any time, left,
\* loaded back, persisted again and deleted, and the page is loaded again.
NextStore ==
  \/ SetupActions(TwoTeams, NoPlayers, BlankNames, TwoTeamIds(0))
  \/ \E value \in OneGoalScores : handleScoreChange(currentMatchViewIndex, "team1", value)
  \/ ExitLeague
  \/ handleSaveLeagueClick
  \/ SaveDialog(TwoLeagueNames)
  \/ LoadOptions
  \/ Reload

SpecStore == Init /\ [][NextStore]_vars

\* The league of two teams with rosters, played in one session by a user who
\* types numerals with a minus sign into the score inputs too.
NextScores ==
  \/ SetupActions(TwoTeams, SmallRosters, BlankNames, TwoTeamIds(1))
  \/ \E side \in Sides, value \in SignedScoreInputs :
       handleScoreChange(currentMatchViewIndex, side, value)
  \/ ScorerActions
  \/ handleSaveResult(currentMatchViewIndex)
  \/ ExitLeague

SpecScores == Init /\ [][NextScores]_vars

\* The league of three teams without rosters whose teams are named A or B, or
\* left unnamed: its first two matches are scored and saved.
NextNames ==
  \/ SetupActions(ThreeTeams, NoPlayers, TwoNames, 3)
  \/ /\ currentMatchViewIndex < 2
     /\ \E side \in Sides, value \in ScoreInputs :
          handleScoreChange(currentMatchViewIndex, side, value)
  \/ handleSaveResult(currentMatchViewIndex)
  \/ Navigation
  \/ ExitLeague

SpecNames == Init /\ [][NextNames]_vars

\* The store with two names, and the leagues of two teams without rosters
\* played in full: results are saved, edited and reset while leagues are
\* persisted, left, loaded back and deleted.
NextSnapshot ==
  \/ NextStore
  \/ \E value \in OneGoalScores : handleScoreChange(currentMatchViewIndex, "team2", value)
  \/ handleSaveResult(currentMatchViewIndex)
  \/ handleEditResult(currentMatchViewIndex)
  \/ handleCancelEdit(currentMatchViewIndex)
  \/ \E confirmed \in BOOLEAN : handleResetLeague(confirmed)

SpecSnapshot == Init /\ [][NextSnapshot]_vars

\* ------------------------------------------------------------------ claims
\* The standings the specification describes, computed from the match
\* results alone: what the saved results with both scores set contribute to
\* the team with this identity.
RECURSIVE SumOver(_, _)
SumOver(f, S) ==
  IF S = {} THEN 0
  ELSE LET x == CHOOSE y \in S : TRUE IN f[x] + SumOver(f, S \ {x})

Scored(m) == m.team1Score # <<>> /\ m.team2Score # <<>>
GoalsFor(m, id) == IF m.team1Id = id THEN Get(m.team1Score) ELSE Get(m.team2Score)
GoalsAgainst(m, id) == IF m.team1Id = id THEN Get(m.team2Score) ELSE Get(m.team1Score)

StandingOf(results, team) ==
  LET mine == {k \in 1..Len(results) :
                 /\ results[k].saved
                 /\ Scored(results[k])
                 /\ team.id \in {results[k].team1Id, results[k].team2Id}}
      won == {k \in mine : GoalsFor(results[k], team.id) > GoalsAgainst(results[k], team.id)}
      drawn == {k \in mine : GoalsFor(results[k], team.id) = GoalsAgainst(results[k], team.id)}
      lost == {k \in mine : GoalsFor(results[k], team.id) < GoalsAgainst(results[k], team.id)}
      gf == SumOver([k \in mine |-> GoalsFor(results[k], team.id)], mine)
      ga == SumOver([k \in mine |-> GoalsAgainst(results[k], team.id)], mine)
  IN [name |-> team.name,
      played |-> Cardinality(mine),
      wins |-> Cardinality(won),
      draws |-> Cardinality(drawn),
      losses |-> Cardinality(lost),
      gf |-> gf,
      ga |-> ga,
      gd |-> gf - ga,
      points |-> 3 * Cardinality(won) + Cardinality(drawn)]

StandingsOf(results, teams) ==
  [k \in 1..Len(teams) |-> StandingOf(results, teams[k])]

\* a match result with the scores it was last saved with: the snapshot of a
\* result under edit, its own scores otherwise
AsLastSaved(m) ==
  IF m.isEditing /\ IsDefined(m.originalScores)
  THEN [m EXCEPT !.team1Score = Get(m.originalScores).team1,
                 !.team2Score = Get(m.originalScores).team2]
  ELSE m

NoneEditing == \A k \in 1..Len(matchResults) : ~matchResults[k].isEditing
TalliesMatch(m) ==
  /\ m.team1Score = <<SumGoals(m.team1GoalScorers)>>
  /\ m.team2Score = <<SumGoals(m.team2GoalScorers)>>
SaveAccepted(m) == Scored(m) /\ (numPlayersPerTeam > 0 => TalliesMatch(m))

\* C1: a successful save of a saved match under edit leaves the standings a
\* fresh save of the new scores would give on the league in which that match
\* had never been saved: the standings of the other matches as last saved,
\* plus the new result.
C1_EditResaveIsFreshSave ==
  [][(/\ handleSaveResult(currentMatchViewIndex)
      /\ Shown.saved
      /\ Shown.isEditing
      /\ SaveAccepted(Shown))
     => teamStats' =
          StandingsOf([k \in 1..Len(matchResults') |-> AsLastSaved(matchResults'[k])],
                      submittedTeamData)]_vars

\* C2: while no match result is under edit, the standings are the function
\* StandingsOf of the saved match results.
C2_StandingsFunctionOfSaved ==
  NoneEditing => teamStats = StandingsOf(matchResults, submittedTeamData)

\* C3: with rosters, the scorer tallies of every saved match result sum to
\* its two scores.
C3_SavedTalliesSumToScores ==
  numPlayersPerTeam > 0 =>
    \A k \in 1..Len(matchResults) :
      matchResults[k].saved => TalliesMatch(matchResults[k])

\* C4: over all teams, wins and losses both total the number of saved match
\* results with two different scores, and draws total twice the number of
\* saved match results with two equal scores.
Total(stats, field) ==
  SumOver([k \in 1..Len(stats) |-> stats[k][field]], 1..Len(stats))
SavedDecided ==
  {k \in 1..Len(matchResults) :
     matchResults[k].saved /\ matchResults[k].team1Score # matchResults[k].team2Score}
SavedDrawn ==
  {k \in 1..Len(matchResults) :
     matchResults[k].saved /\ matchResults[k].team1Score = matchResults[k].team2Score}
C4_TotalsMatchSavedOutcomes ==
  roundNumber > 0 =>
    /\ Total(teamStats, "wins") = Cardinality(SavedDecided)
    /\ Total(teamStats, "losses") = Cardinality(SavedDecided)
    /\ Total(teamStats, "draws") = 2 * Cardinality(SavedDrawn)

\* C5: every entry of teamStats has gd = gf - ga.
C5_GoalDifference ==
  \A k \in 1..Len(teamStats) : teamStats[k].gd = teamStats[k].gf - teamStats[k].ga
\* a league loaded from the store after it was persisted under edit, with the
\* standings of the score before the edit: a team has lost and gd is negative
C5_Witness ==
  /\ IsDefined(currentLeagueName)
  /\ NoneEditing
  /\ teamStats # StandingsOf(matchResults, submittedTeamData)
  /\ \E k \in 1..Len(teamStats) : teamStats[k].losses > 0 /\ teamStats[k].gd < 0

\* C6: what the store keeps of a league and what a load makes of it.
StoredLeagues == loadSavedLeaguesFromStorage(localStorage)
Absent(r, field) == field \notin DOMAIN r \/ r[field] = Undefined
\* kept is the match result m after a trip through the store
SameResult(m, kept) ==
  /\ \A field \in {"team1Id", "team2Id", "team1Score", "team2Score",
                   "team1GoalScorers", "team2GoalScorers", "saved",
                   "goalScorerMismatch"} : kept[field] = m[field]
  /\ kept.isEditing = FALSE
  /\ Absent(kept, "originalScores")
  /\ Absent(kept, "originalGoalScorers")
SameResults(results, kept) ==
  /\ Len(kept) = Len(results)
  /\ \A k \in 1..Len(results) : SameResult(results[k], kept[k])

\* C6: a league persisted under a name is in localStorage with its teams,
\* match results, standings and played pairs as they are at that moment,
\* isEditing false and no snapshot; the entry stays as it is until that name
\* is persisted again or deleted; and loading the name makes the live league
\* equal to the entry, again with isEditing false and no snapshot.
C6_RoundTrip ==
  [][/\ (handleSaveLeagueConfirm /\ ~showSaveLeagueModal') =>
          LET kept == StoredLeagues'[Trim(saveLeagueInputName)]
          IN /\ kept.submittedTeamData = submittedTeamData
             /\ SameResults(matchResults, kept.matchResults)
             /\ kept.teamStats = teamStats
             /\ kept.allPlayedPairs = allPlayedPairs
     /\ \A name \in DOMAIN StoredLeagues :
          \/ StoredLeagues' = StoredLeagues
          \/ handleSaveLeagueConfirm /\ name = Trim(saveLeagueInputName)
          \/ handleDeleteLeague(name, TRUE)
          \/ /\ name \in DOMAIN StoredLeagues'
             /\ StoredLeagues'[name] = StoredLeagues[name]
     /\ \A name \in DOMAIN savedLeagues :
          handleLoadLeague(name) =>
            /\ name \in DOMAIN StoredLeagues
            /\ submittedTeamData' = StoredLeagues[name].submittedTeamData
            /\ SameResults(StoredLeagues[name].matchResults, matchResults')
            /\ teamStats' = StoredLeagues[name].teamStats
            /\ allPlayedPairs' = StoredLeagues[name].allPlayedPairs]_vars
\* a league with rosters, loaded after it was persisted while its saved match
\* was under edit with a changed score: the match is saved with its scorers
\* and not under edit, and the standings are those of the score before the edit
C6_Witness ==
  /\ IsDefined(currentLeagueName)
  /\ \E k \in 1..Len(matchResults) :
       /\ matchResults[k].saved
       /\ ~matchResults[k].isEditing
       /\ matchResults[k].team1GoalScorers # <<>>
       /\ teamStats # StandingsOf(matchResults, submittedTeamData)

\* C7: the place of the pair (i, j) in the order of an outer loop over i and
\* an inner loop over j > i, among n teams
PlaceOf(n, i, j) ==
  Cardinality({p \in (1..n) \X (1..n) :
                 p[1] < p[2] /\ (p[1] < i \/ (p[1] = i /\ p[2] <= j))})
LeagueStarts == roundNumber = 0 /\ roundNumber' = 1

\* C7: when the games start with n >= 2 teams there are n(n-1)/2 fixtures,
\* the fixture at the place of (i, j) pairs the i-th with the j-th team, and
\* there is one match result per fixture, with both scores unset, both scorer
\* lists empty, saved false and isEditing false.
C7_RoundRobinFixtures ==
  [][(LeagueStarts /\ Len(submittedTeamData') >= 2) =>
       LET n == Len(submittedTeamData')
       IN /\ 2 * Len(matches') = n * (n - 1)
          /\ \A i \in 1..n : \A j \in (i + 1)..n :
               matches'[PlaceOf(n, i, j)] =
                 <<submittedTeamData'[i].name, submittedTeamData'[j].name>>
          /\ Len(matchResults') = Len(matches')
          /\ \A k \in 1..Len(matchResults') :
               /\ matchResults'[k].team1Score = <<>>
               /\ matchResults'[k].team2Score = <<>>
               /\ matchResults'[k].team1GoalScorers = <<>>
               /\ matchResults'[k].team2GoalScorers = <<>>
               /\ matchResults'[k].saved = FALSE
               /\ matchResults'[k].isEditing = FALSE]_vars
\* a league of three teams has started
C7_Witness == roundNumber = 1 /\ Len(submittedTeamData) = 3 /\ Len(matches) = 3

\* C8: no two match results reference the same unordered pair of team
\* identities, and every match result references two different identities.
C8_OneResultPerPair ==
  /\ \A k \in 1..Len(matchResults) :
       matchResults[k].team1Id # matchResults[k].team2Id
  /\ \A k, l \in 1..Len(matchResults) :
       k # l => {matchResults[k].team1Id, matchResults[k].team2Id}
                  # {matchResults[l].team1Id, matchResults[l].team2Id}

\* C9: with rosters, Save on a match with both scores set and tallies that do
\* not sum to a score sets the match's goalScorerMismatch flag and shows the
\* warning modal; teamStats, allPlayedPairs and the match's saved flag,
\* isEditing flag, scores, scorers and snapshots stay as they are.
C9_MismatchRejected ==
  [][(/\ handleSaveResult(currentMatchViewIndex)
      /\ numPlayersPerTeam > 0
      /\ Scored(Shown)
      /\ ~TalliesMatch(Shown))
     => /\ matchResults'[currentMatchViewIndex + 1].goalScorerMismatch
        /\ showWarningModal'
        /\ teamStats' = teamStats
        /\ allPlayedPairs' = allPlayedPairs
        /\ \A field \in {"saved", "isEditing", "team1Score", "team2Score",
                         "team1GoalScorers", "team2GoalScorers",
                         "originalScores", "originalGoalScorers"} :
             matchResults'[currentMatchViewIndex + 1][field] = Shown[field]]_vars
\* the rejected save of a saved match under edit whose second score no longer
\* agrees with its tallies
C9_Witness ==
  /\ MainView
  /\ showWarningModal
  /\ warningMessage = "goalScorerMismatch"
  /\ currentMatchViewIndex < Len(matchResults)
  /\ LET m == matchResults[currentMatchViewIndex + 1]
     IN /\ m.goalScorerMismatch
        /\ m.saved
        /\ m.isEditing
        /\ Scored(m)
        /\ m.team1Score = <<SumGoals(m.team1GoalScorers)>>
        /\ m.team2Score # <<SumGoals(m.team2GoalScorers)>>

\* C10: Save on a match with a score unset shows the warning modal and leaves
\* matchResults, teamStats and allPlayedPairs as they are.
C10_MissingScoreRejected ==
  [][(handleSaveResult(currentMatchViewIndex) /\ ~Scored(Shown))
     => /\ showWarningModal'
        /\ matchResults' = matchResults
        /\ teamStats' = teamStats
        /\ allPlayedPairs' = allPlayedPairs]_vars
\* the rejected save of a match whose first score is set and whose second
\* score is unset
C10_Witness ==
  /\ MainView
  /\ showWarningModal
  /\ warningMessage = "missingScores"
  /\ currentMatchViewIndex < Len(matchResults)
  /\ matchResults[currentMatchViewIndex + 1].team1Score # <<>>
  /\ matchResults[currentMatchViewIndex + 1].team2Score = <<>>

\* the match result the card shows, after the step
ShownAfter == matchResults'[currentMatchViewIndex + 1]
\* the name of the team with this identity
NameOfTeam(id) == submittedTeamData[IndexById(submittedTeamData, id)].name

\* C11: after a successful Save the match is saved and not under edit, has no
\* snapshot and no mismatch flag, and the pair key of its two teams is in
\* allPlayedPairs.
C11_SavedMatchAfterSave ==
  [][(handleSaveResult(currentMatchViewIndex) /\ SaveAccepted(Shown))
     => /\ ShownAfter.saved
        /\ ~ShownAfter.isEditing
        /\ ShownAfter.originalScores = Undefined
        /\ ShownAfter.originalGoalScorers = Undefined
        /\ ~ShownAfter.goalScorerMismatch
        /\ \E k \in 1..Len(allPlayedPairs') :
             allPlayedPairs'[k] =
               normalizePair(NameOfTeam(Shown.team1Id), NameOfTeam(Shown.team2Id))]_vars
\* a match with a scorer, saved and recorded as played
C11_Witness ==
  /\ MatchInputSection
  /\ Shown.saved
  /\ ~Shown.isEditing
  /\ Shown.team1GoalScorers # <<>>
  /\ allPlayedPairs # <<>>

\* C12: every match result under edit is a saved one, and entering edit sets
\* isEditing and takes the current scores and scorer lists as the snapshot,
\* leaving scores, scorers, saved flag and teamStats as they are.
C12_EditOnlySaved ==
  [][/\ \A k \in 1..Len(matchResults') :
          matchResults'[k].isEditing => matchResults'[k].saved
     /\ handleEditResult(currentMatchViewIndex) =>
          /\ Shown.saved
          /\ ShownAfter.isEditing
          /\ ShownAfter.originalScores =
               Some([team1 |-> Shown.team1Score, team2 |-> Shown.team2Score])
          /\ ShownAfter.originalGoalScorers =
               Some([team1 |-> Shown.team1GoalScorers,
                     team2 |-> Shown.team2GoalScorers])
          /\ \A field \in {"team1Score", "team2Score", "team1GoalScorers",
                           "team2GoalScorers", "saved"} :
               ShownAfter[field] = Shown[field]
          /\ teamStats' = teamStats]_vars
\* a match with a scorer, under edit with its snapshot
C12_Witness ==
  /\ MatchInputSection
  /\ Shown.saved
  /\ Shown.isEditing
  /\ Shown.originalGoalScorers =
       Some([team1 |-> Shown.team1GoalScorers, team2 |-> Shown.team2GoalScorers])
  /\ Shown.team1GoalScorers # <<>>

\* C13: while the shown match stays under edit its snapshot, teamStats and
\* allPlayedPairs stay as they were when the edit was entered, and cancelling
\* the edit puts the snapshot back as scores and scorer lists, keeps saved,
\* clears isEditing, the snapshots and the mismatch flag, and leaves teamStats
\* and allPlayedPairs as they are.
C13_EditCancelRoundTrip ==
  [][/\ (/\ MatchInputSection
         /\ Shown.isEditing
         /\ currentMatchViewIndex < Len(matchResults')
         /\ ShownAfter.isEditing)
        => /\ ShownAfter.originalScores = Shown.originalScores
           /\ ShownAfter.originalGoalScorers = Shown.originalGoalScorers
           /\ teamStats' = teamStats
           /\ allPlayedPairs' = allPlayedPairs
     /\ (handleCancelEdit(currentMatchViewIndex) /\ Shown.saved)
        => /\ IsDefined(Shown.originalScores)
           /\ IsDefined(Shown.originalGoalScorers)
           /\ ShownAfter.team1Score = Get(Shown.originalScores).team1
           /\ ShownAfter.team2Score = Get(Shown.originalScores).team2
           /\ ShownAfter.team1GoalScorers = Get(Shown.originalGoalScorers).team1
           /\ ShownAfter.team2GoalScorers = Get(Shown.originalGoalScorers).team2
           /\ ShownAfter.saved
           /\ ~ShownAfter.isEditing
           /\ ShownAfter.originalScores = Undefined
           /\ ShownAfter.originalGoalScorers = Undefined
           /\ ~ShownAfter.goalScorerMismatch
           /\ teamStats' = teamStats
           /\ allPlayedPairs' = allPlayedPairs]_vars
\* a match under edit whose score and scorers were changed and whose save was
\* rejected, ready to be cancelled
C13_Witness ==
  /\ MatchInputSection
  /\ Shown.isEditing
  /\ Shown.goalScorerMismatch
  /\ IsDefined(Shown.originalScores)
  /\ Shown.team1Score # Get(Shown.originalScores).team1
  /\ Shown.team1GoalScorers # Get(Shown.originalGoalScorers).team1

\* the players of the team on this side of the shown match
PlayersOfSide(teamNum) ==
  submittedTeamData[IndexById(submittedTeamData, TeamIdOf(Shown, teamNum))].players
Listed(scorers, playerId) == \E k \in 1..Len(scorers) : scorers[k].playerId = playerId
\* the step adds the player p of this side, not yet listed, with this tally
AddsScorer(teamNum, p, tally) ==
  (/\ handleSelectGoalScorer(currentMatchViewIndex, teamNum, PlayersOfSide(teamNum)[p].id)
   /\ ~Listed(Scorers(Shown, teamNum), PlayersOfSide(teamNum)[p].id))
  => Scorers(ShownAfter, teamNum) =
       Append(Scorers(Shown, teamNum),
              [playerId |-> PlayersOfSide(teamNum)[p].id,
               playerName |-> PlayersOfSide(teamNum)[p].name,
               goals |-> tally])

\* C14: adding a player of the side's team who is not yet in the side's scorer
\* list appends one entry for that player with the tally zero.
C14_AddScorerTallyZero ==
  [][MatchInputSection =>
       \A teamNum \in TeamNums : \A p \in 1..Len(PlayersOfSide(teamNum)) :
         AddsScorer(teamNum, p, 0)]_vars
\* C14, amended: the appended entry has the tally one.
C14_AddScorerTallyOne ==
  [][MatchInputSection =>
       \A teamNum \in TeamNums : \A p \in 1..Len(PlayersOfSide(teamNum)) :
         AddsScorer(teamNum, p, 1)]_vars
\* a draft with the first score set and the side's player added with one goal
C14_Witness ==
  /\ MatchInputSection
  /\ ~Shown.saved
  /\ Shown.team1Score = <<1>>
  /\ Len(Shown.team1GoalScorers) = 1
  /\ Shown.team1GoalScorers[1] =
       [playerId |-> PlayersOfSide(1)[1].id,
        playerName |-> PlayersOfSide(1)[1].name, goals |-> 1]

\* C15: adding a player who is already in the side's scorer list leaves the
\* list as it is, and no scorer list holds a player identity twice.
NoPlayerTwice(scorers) ==
  \A k, l \in 1..Len(scorers) : k # l => scorers[k].playerId # scorers[l].playerId
C15_AddScorerIdempotent ==
  [][/\ MatchInputSection =>
          \A teamNum \in TeamNums : \A p \in 1..Len(PlayersOfSide(teamNum)) :
            (/\ handleSelectGoalScorer(currentMatchViewIndex, teamNum,
                                       PlayersOfSide(teamNum)[p].id)
             /\ Listed(Scorers(Shown, teamNum), PlayersOfSide(teamNum)[p].id))
            => Scorers(ShownAfter, teamNum) = Scorers(Shown, teamNum)
     /\ \A k \in 1..Len(matchResults') :
          /\ NoPlayerTwice(matchResults'[k].team1GoalScorers)
          /\ NoPlayerTwice(matchResults'[k].team2GoalScorers)]_vars
\* the dropdown of the first side is shown while its player is already listed
C15_Witness ==
  /\ MatchInputSection
  /\ showScorerDropdown(1)
  /\ Len(PlayersOfSide(1)) > 0
  /\ Listed(Shown.team1GoalScorers, PlayersOfSide(1)[1].id)

\* The season of three teams of one player each: the first two matches are
\* scored, given scorers and saved, the first match is also edited, and the
\* user walks through all three matches.
NextSeason ==
  \/ SetupActions(ThreeTeams, OnePlayer, BlankNames, 6)
  \/ /\ currentMatchViewIndex < 2
     /\ \E side \in Sides, value \in OneGoalScores :
          handleScoreChange(currentMatchViewIndex, side, value)
  \/ \E teamNum \in TeamNums, playerId \in 0..MaxId :
       handleSelectGoalScorer(currentMatchViewIndex, teamNum, playerId)
  \/ \E teamNum \in TeamNums, value \in FewGoals :
       handlePlayerGoalChange(currentMatchViewIndex, teamNum, 0, value)
  \/ \E teamNum \in TeamNums, playerId \in 0..MaxId :
       handleRemoveGoalScorer(currentMatchViewIndex, teamNum, playerId)
  \/ handleSaveResult(currentMatchViewIndex)
  \/ handleEditResult(0)
  \/ handleCancelEdit(0)
  \/ Navigation
  \/ ExitLeague

SpecSeason == Init /\ [][NextSeason]_vars

\* the places of the scorer entries: match result, side, position in the list
ScorerPlaces ==
  {pl \in (1..Len(matchResults)) \X TeamNums \X (1..MaxId) :
     pl[3] <= Len(Scorers(matchResults[pl[1]], pl[2]))}
EntryAt(pl) == Scorers(matchResults[pl[1]], pl[2])[pl[3]]
ScoringPlayers == {EntryAt(pl).playerId : pl \in ScorerPlaces}
TotalGoals(playerId) ==
  LET mine == {pl \in ScorerPlaces : EntryAt(pl).playerId = playerId}
  IN SumOver([pl \in mine |-> EntryAt(pl).goals], mine)

\* C16: the top-scorer list has one entry per player identity found in a
\* scorer list of any match result, saved or not, with that player's tallies
\* over all match results as its total, and it is in descending order of goals.
C16_TopScorers ==
  LET top == calculateTopScorers
  IN /\ Len(top) = Cardinality(ScoringPlayers)
     /\ \E entryOf \in [ScoringPlayers -> 1..Len(top)] :
          /\ \A a, b \in ScoringPlayers : a # b => entryOf[a] # entryOf[b]
          /\ \A a \in ScoringPlayers : top[entryOf[a]].goals = TotalGoals(a)
     /\ \A k, l \in 1..Len(top) : k < l => top[k].goals >= top[l].goals
\* three players with different totals: one with a goal in each of two
\* matches, one of them a draft, one with a single goal and one with none
C16_Witness ==
  /\ Cardinality(ScoringPlayers) = 3
  /\ {TotalGoals(a) : a \in ScoringPlayers} = {0, 1, 2}
  /\ \E k \in 1..Len(matchResults) :
       ~matchResults[k].saved /\ matchResults[k].team1GoalScorers # <<>>
  /\ \E k \in 1..Len(matchResults) : matchResults[k].saved

\* C17: a league that is stored is never replaced without the overwrite
\* confirmation.  A confirmation in the save dialog for a name that is stored,
\* while the overwrite prompt is not showing, opens the prompt for that name
\* and leaves the store as it is; the entry of a stored name changes only in
\* a step taken while the prompt is showing for that name; cancelling the
\* dialog leaves the store as it is.
Replaced(name) ==
  /\ name \in DOMAIN StoredLeagues
  /\ name \in DOMAIN StoredLeagues'
  /\ StoredLeagues'[name] # StoredLeagues[name]

C17_OverwriteNeedsConfirmation ==
  [][/\ ( /\ handleSaveLeagueConfirm
          /\ ~showOverwriteConfirm
          /\ Trim(saveLeagueInputName) \in DOMAIN savedLeagues )
        => /\ showOverwriteConfirm'
           /\ leagueNameToOverwrite' = Trim(saveLeagueInputName)
           /\ showSaveLeagueModal'
           /\ UNCHANGED store
     /\ \A name \in DOMAIN StoredLeagues :
          Replaced(name) => /\ showSaveLeagueModal
                            /\ showOverwriteConfirm
                            /\ leagueNameToOverwrite = name
                            /\ Trim(saveLeagueInputName) = name
     /\ handleCancelSaveLeague => UNCHANGED store
    ]_vars

\* the overwrite prompt is showing for a stored league whose results differ
\* from the results of the league being played
C17_Witness ==
  /\ showSaveLeagueModal
  /\ showOverwriteConfirm
  /\ leagueNameToOverwrite \in DOMAIN savedLeagues
  /\ savedLeagues[leagueNameToOverwrite].matchResults # matchResults
  /\ Cardinality(DOMAIN savedLeagues) = 2

\* C18: a confirmed delete of the league stored under a name removes exactly
\* the entry of that name, from the leagues in memory and from localStorage:
\* the other entries stay as they are, and the application shows the initial
\* screen.
C18_DeleteRemovesExactlyOne ==
  [][\A name \in DOMAIN savedLeagues :
       handleDeleteLeague(name, TRUE)
         => /\ DOMAIN savedLeagues' = DOMAIN savedLeagues \ {name}
            /\ \A other \in DOMAIN savedLeagues' :
                 savedLeagues'[other] = savedLeagues[other]
            /\ DOMAIN StoredLeagues' = DOMAIN StoredLeagues \ {name}
            /\ \A other \in DOMAIN StoredLeagues' :
                 StoredLeagues'[other] = StoredLeagues[other]
            /\ roundNumber' = 0
            /\ appStage' = "initialScreen"
    ]_vars

\* the list of stored leagues shows two leagues with different results, each
\* with its delete button
C18_Witness ==
  /\ LoadLeagueOptionsScreen
  /\ \E a, b \in DOMAIN savedLeagues :
       /\ a # b
       /\ savedLeagues[a].matchResults # savedLeagues[b].matchResults

\* C19 speaks of the delete of the league named by currentLeagueName.  The
\* delete button is on the list of stored leagues only, and on that list no
\* league is current: every way out of a league that is played clears the
\* name.
C19_NoCurrentLeagueOnLoadScreen ==
  (roundNumber = 0 /\ appStage = "loadLeagueOptions") => currentLeagueName = Undefined

C19_DeleteOfCurrentLeague ==
  [][\A name \in DOMAIN savedLeagues :
       (handleDeleteLeague(name, TRUE) /\ currentLeagueName = Some(name))
         => /\ currentLeagueName' = Undefined
            /\ roundNumber' = 0
            /\ matchResults' = <<>>
            /\ teamStats' = <<>>
            /\ submittedTeamData' = <<>>
    ]_vars

\* C20: the identities of the teams and players of the league are pairwise
\* distinct, in the teams being set up and in the teams of the league being
\* played, and the identity counter is greater than every identity in the
\* teams, the match results and the scorer lists.
Entities(teams) ==
  Len(teams) + SumOver([t \in 1..Len(teams) |-> Len(teams[t].players)],
                       1..Len(teams))
Identities(teams) ==
  {teams[t].id : t \in 1..Len(teams)}
    \cup UNION {{teams[t].players[p].id : p \in 1..Len(teams[t].players)} :
                t \in 1..Len(teams)}
ResultIdentities ==
  UNION {{matchResults[k].team1Id, matchResults[k].team2Id}
           \cup {matchResults[k].team1GoalScorers[i].playerId :
                   i \in 1..Len(matchResults[k].team1GoalScorers)}
           \cup {matchResults[k].team2GoalScorers[i].playerId :
                   i \in 1..Len(matchResults[k].team2GoalScorers)} :
         k \in 1..Len(matchResults)}

C20_IdentitiesDistinct ==
  /\ Cardinality(Identities(teamData)) = Entities(teamData)
  /\ Cardinality(Identities(submittedTeamData)) = Entities(submittedTeamData)
  /\ \A id \in Identities(teamData) \cup Identities(submittedTeamData)
                 \cup ResultIdentities : globalIdCounter > id

\* a league with rosters and a scorer that was loaded from the store after
\* the page was loaded again: the leagues in memory are those read from
\* localStorage, and one of them is the current league
C20_Witness ==
  /\ roundNumber > 0
  /\ currentLeagueName # Undefined
  /\ savedLeagues # NoLeagues
  /\ savedLeagues = StoredLeagues
  /\ Entities(submittedTeamData) = 4
  /\ \E k \in 1..Len(matchResults) : matchResults[k].team1GoalScorers # <<>>

\* C21: reset league, exit league and delete league change state only when
\* the user confirms.  When the user declines the prompt, the teams, match
\* results, standings, played pairs, roundNumber, currentLeagueName, the
\* stage of the application and the store are as they were.
LiveLeague ==
  <<teamData, submittedTeamData, matches, matchResults, teamStats,
    allPlayedPairs, roundNumber, currentLeagueName, appStage>>

C21_DeclineChangesNothing ==
  [][( \/ handleResetLeague(FALSE)
       \/ handleExitLeague(FALSE)
       \/ \E name \in DOMAIN savedLeagues : handleDeleteLeague(name, FALSE) )
       => /\ UNCHANGED LiveLeague
          /\ UNCHANGED <<savedLeagues, localStorage>>
    ]_vars

\* a persisted league whose results are all saved: the reset and the exit
\* buttons are both there, and there is something to lose
C21_Witness ==
  /\ roundNumber > 0
  /\ ~showSaveLeagueModal /\ ~showWarningModal
  /\ matchResults # <<>>
  /\ \A k \in 1..Len(matchResults) : matchResults[k].saved
  /\ currentLeagueName # Undefined
  /\ DOMAIN savedLeagues # {}

\* C22: confirming the save dialog with a name that is empty or made of
\* blanks only is rejected with the warning modal: the store, the current
\* league name and the league being played are as they were, and the save
\* dialog stays open with the name as typed.
Blank(text) == \A i \in 1..Len(text) : text[i] = " "

C22_EmptyNameRejected ==
  [][(handleSaveLeagueConfirm /\ Blank(saveLeagueInputName))
       => /\ showWarningModal'
          /\ warningModalType' = "alert"
          /\ warningMessage' = "emptyLeagueName"
          /\ showSaveLeagueModal'
          /\ UNCHANGED <<savedLeagues, localStorage, currentLeagueName>>
          /\ UNCHANGED league
          /\ UNCHANGED <<appStage, saveLeagueInputName>>
    ]_vars

\* the dialog after a confirmation with a name of one blank
C22_Witness ==
  /\ showSaveLeagueModal
  /\ showWarningModal
  /\ warningMessage = "emptyLeagueName"
  /\ saveLeagueInputName = <<" ">>
  /\ \E k \in 1..Len(matchResults) : matchResults[k].saved

\* C23: each score of each match result is unset or a non-negative integer,
\* whatever the score input delivers, numerals with a minus sign included,
\* and setting a score clears the mismatch flag of the match.
NonNegativeScore(score) == score = <<>> \/ Get(score) >= 0

C23_ScoresNonNegative ==
  [][/\ \A k \in 1..Len(matchResults') :
          /\ NonNegativeScore(matchResults'[k].team1Score)
          /\ NonNegativeScore(matchResults'[k].team2Score)
     /\ \A side \in Sides, value \in SignedScoreInputs :
          handleScoreChange(currentMatchViewIndex, side, value)
            => ~matchResults'[currentMatchViewIndex + 1].goalScorerMismatch
    ]_vars

\* C24: saving a match result changes the stat entries of its two teams only.
\* On the first save of the fixture of the i-th and the j-th team with scores
\* a-b, the entry of the i-th team gains one match played, a goals for, b
\* goals against and the win, draw or loss of a-b with its points, the entry
\* of the j-th team gains the same for b-a, and every other entry stays as it
\* is; a save of an edited result leaves every other entry as it is too.
Gain(entry, for, against) ==
  [name |-> entry.name,
   played |-> entry.played + 1,
   wins |-> entry.wins + (IF for > against THEN 1 ELSE 0),
   draws |-> entry.draws + (IF for = against THEN 1 ELSE 0),
   losses |-> entry.losses + (IF for < against THEN 1 ELSE 0),
   gf |-> entry.gf + for,
   ga |-> entry.ga + against,
   gd |-> entry.gd + for - against,
   points |-> entry.points + (IF for > against THEN 3
                              ELSE IF for = against THEN 1 ELSE 0)]

C24_SaveChangesTwoEntries ==
  [][(handleSaveResult(currentMatchViewIndex) /\ SaveAccepted(Shown))
     => LET n == Len(submittedTeamData)
            a == Get(Shown.team1Score)
            b == Get(Shown.team2Score)
        IN /\ Len(teamStats') = n
           /\ \A i \in 1..n : \A j \in (i + 1)..n :
                PlaceOf(n, i, j) = currentMatchViewIndex + 1 =>
                  \A t \in 1..n :
                    teamStats'[t] =
                      IF t \notin {i, j} THEN teamStats[t]
                      ELSE IF Shown.saved THEN teamStats'[t]
                      ELSE IF t = i THEN Gain(teamStats[t], a, b)
                      ELSE Gain(teamStats[t], b, a)
    ]_vars

\* C25: the generation of fixtures for fewer than two teams gives no fixture
\* and no match result, and a league that is played has two teams or more
\* and one fixture or more, with one match result for each fixture.
C25_NoLeagueBelowTwoTeams ==
  /\ Len(teamData) < 2 =>
       /\ generateAllRoundRobinMatches(teamData).newMatches = <<>>
       /\ generateAllRoundRobinMatches(teamData).newMatchResults = <<>>
  /\ roundNumber > 0 =>
       /\ Len(submittedTeamData) >= 2
       /\ Len(matches) >= 1
       /\ Len(matchResults) = Len(matches)

\* the count screen with one team: the step to the naming of the teams is
\* not offered
C25_Witness ==
  /\ roundNumber = 0
  /\ appStage = "setupCounts"
  /\ numTeams = 1
  /\ Len(teamData) = 1
  /\ matches = <<>>
  /\ matchResults = <<>>

\* C26: the standings as displayed are the entries of teamStats in another
\* order: by points descending, entries equal on points by goal difference
\* descending, entries equal on both by goals for descending, and entries
\* equal on all three in the order they have in teamStats.
RanksAbove(a, b) ==
  \/ a.points > b.points
  \/ a.points = b.points /\ a.gd > b.gd
  \/ a.points = b.points /\ a.gd = b.gd /\ a.gf > b.gf
RanksEqual(a, b) == a.points = b.points /\ a.gd = b.gd /\ a.gf = b.gf

C26_StandingsOrder ==
  LET n == Len(teamStats)
  IN /\ Len(sortedTeamStats) = n
     /\ \E from \in [1..n -> 1..n] :
          /\ \A k, l \in 1..n : k # l => from[k] # from[l]
          /\ \A k \in 1..n : sortedTeamStats[k] = teamStats[from[k]]
          /\ \A k, l \in 1..n :
               k < l => \/ RanksAbove(sortedTeamStats[k], sortedTeamStats[l])
                        \/ /\ RanksEqual(sortedTeamStats[k], sortedTeamStats[l])
                           /\ from[k] < from[l]

\* every team has played, and two teams are level on points, the later one
\* in teamStats with the better goal difference
C26_Witness ==
  /\ Len(teamStats) = 3
  /\ \E i, j \in 1..3 :
       /\ i < j
       /\ teamStats[i].points = teamStats[j].points
       /\ teamStats[i].gd < teamStats[j].gd
  /\ \A i \in 1..3 : teamStats[i].played > 0
  /\ sortedTeamStats # teamStats

\* C27: the teams of a league that is played do not change.  A step taken
\* while roundNumber > 0 that changes submittedTeamData is a reset or an exit:
\* it ends with roundNumber 0 and no submitted team; saving results, moving
\* between matches and persisting the league leave the teams, their
\* identities, names and players, as they are.
C27_TeamsImmutableOncePlayed ==
  [][(roundNumber > 0 /\ submittedTeamData' # submittedTeamData)
       => roundNumber' = 0 /\ submittedTeamData' = <<>>
    ]_vars

\* a league with a saved result, shown at its second match, whose first team
\* is named
C27_Witness ==
  /\ roundNumber > 0
  /\ currentMatchViewIndex = 1
  /\ matchResults[1].saved
  /\ Len(submittedTeamData) = 3
  /\ submittedTeamData[1].name = <<"B">>

\* C28: what is stored under a name does not follow the league being played.
\* The entry of a name in localStorage changes only in the step that confirms
\* the save dialog for that name, and goes away only in a confirmed delete on
\* the list of stored leagues, one name at a time; in memory an entry stays
\* as it is or becomes what localStorage holds for it.  Scores, saved
\* results, edits, resets, exits, new leagues and loads leave it alone.
SaveConfirmedFor(name) ==
  /\ showSaveLeagueModal
  /\ Trim(saveLeagueInputName) = name
  /\ ~showSaveLeagueModal'
  /\ currentLeagueName' = Some(name)

SavedMatchesOf(id) ==
  Cardinality({k \in 1..Len(matchResults) :
                 /\ matchResults[k].saved
                 /\ id \in {matchResults[k].team1Id, matchResults[k].team2Id}})

C29_PlayedCountsSavedMatches ==
  roundNumber > 0 =>
    /\ Len(teamStats) = Len(submittedTeamData)
    /\ \A t \in 1..Len(teamStats) :
         teamStats[t].played = SavedMatchesOf(submittedTeamData[t].id)

\* C30: every entry of the standings has played = wins + draws + losses and
\* points = 3 * wins + draws, none of played, wins, draws and losses is
\* negative, and no team has played more matches than there are other teams.
C30_StandingsConsistent ==
  \A t \in 1..Len(teamStats) :
    LET entry == teamStats[t]
    IN /\ entry.played = entry.wins + entry.draws + entry.losses
       /\ entry.points = 3 * entry.wins + entry.draws
       /\ entry.played >= 0
       /\ entry.wins >= 0
       /\ entry.draws >= 0
       /\ entry.losses >= 0
       /\ entry.played <= Len(teamStats) - 1

\* a match result holds both snapshots exactly when it is under edit
SnapshotIffEditing ==
  \A k \in 1..Len(matchResults) :
    /\ IsDefined(matchResults[k].originalScores) <=> matchResults[k].isEditing
    /\ IsDefined(matchResults[k].originalGoalScorers) <=> matchResults[k].isEditing

\* C31: in every reachable state a match result holds an edit snapshot
\* (originalScores and originalGoalScorers) exactly when it is under edit, and
\* while a match is under edit the standings are those of the match results
\* counted with their snapshot scores, so that a resave takes back exactly
\* what the standings hold for the match.
C31_SnapshotHoldsAppliedScores ==
  /\ SnapshotIffEditing
  /\ (\E k \in 1..Len(matchResults) : matchResults[k].isEditing) =>
       teamStats =
         StandingsOf([k \in 1..Len(matchResults) |-> AsLastSaved(matchResults[k])],
                     submittedTeamData)

\* C32: the saved flag is stable: while a league stays active, through every
\* step that sets a score, changes a scorer list, enters or cancels an edit,
\* rejects or accepts a save or persists the league, the list of match
\* results keeps its length and every match result that is saved stays saved;
\* a league is loaded only from the state without an active league.
C32_SavedStable ==
  [][/\ (roundNumber > 0 /\ roundNumber' > 0) =>
          /\ Len(matchResults') = Len(matchResults)
          /\ \A k \in 1..Len(matchResults) :
                matchResults[k].saved => matchResults'[k].saved
     /\ (\E name \in DOMAIN savedLeagues : handleLoadLeague(name)) => roundNumber = 0]_vars
\* a saved match under edit whose resave was rejected, in a league that was
\* persisted since
C32_Witness ==
  /\ MatchInputSection
  /\ Shown.saved
  /\ Shown.isEditing
  /\ Shown.goalScorerMismatch
  /\ currentLeagueName # Undefined

\* The league of three teams without rosters in a store that is empty: every
\* fixture is walked to, scored, saved, edited and saved again; then the
\* league is persisted, and from then on only left, loaded back and deleted.
NextView ==
  \/ /\ savedLeagues = NoLeagues
     /\ currentLeagueName = Undefined
     /\ \/ SetupActions(ThreeTeams, NoPlayers, BlankNames, 3)
        \/ \E side \in Sides, value \in OneGoalScores :
             handleScoreChange(currentMatchViewIndex, side, value)
        \/ handleSaveResult(currentMatchViewIndex)
        \/ handleEditResult(currentMatchViewIndex)
        \/ handleCancelEdit(currentMatchViewIndex)
        \/ Navigation
        \/ handleSaveLeagueClick
  \/ handleContinueLeague
  \/ BackToInitialScreen
  \/ handleDismissAlert
  \/ ExitLeague
  \/ SaveDialog(OneLeagueName)
  \/ LoadOptions

SpecView == Init /\ [][NextView]_vars

\* C33: after every successful save the shown match is the first match
\* result that is not saved, or the first match when every match result is
\* saved; entering and cancelling an edit leave the shown match as it is.
C33_ViewAfterSave ==
  [][/\ (handleSaveResult(currentMatchViewIndex) /\ SaveAccepted(Shown)) =>
          LET unsaved == {k \in 1..Len(matchResults') : ~matchResults'[k].saved}
          IN IF unsaved = {} THEN currentMatchViewIndex' = 0
             ELSE /\ currentMatchViewIndex' + 1 \in unsaved
                  /\ \A k \in unsaved : currentMatchViewIndex' + 1 <= k
     /\ (\/ handleEditResult(currentMatchViewIndex)
         \/ handleCancelEdit(currentMatchViewIndex)) =>
          currentMatchViewIndex' = currentMatchViewIndex]_vars
\* the first fixture shown with every one of the three match results saved
C33_Witness ==
  /\ MatchInputSection
  /\ Len(matchResults) = 3
  /\ \A k \in 1..3 : matchResults[k].saved /\ ~matchResults[k].isEditing
  /\ currentMatchViewIndex = 0

\* C34: in every state with an active league of n submitted teams the
\* fixture list and the match result list both have n(n-1)/2 entries,
\* fixture k holds the names of the two teams that match result k references,
\* teamStats has one entry per submitted team, in their order, and the shown
\* match index is at least 0 and less than the number of fixtures.
C34_LeagueWellFormed ==
  roundNumber > 0 =>
    LET n == Len(submittedTeamData)
    IN /\ 2 * Len(matches) = n * (n - 1)
       /\ Len(matchResults) = Len(matches)
       /\ \A k \in 1..Len(matches) :
            /\ IndexById(submittedTeamData, matchResults[k].team1Id) # 0
            /\ IndexById(submittedTeamData, matchResults[k].team2Id) # 0
            /\ matches[k] = <<NameOfTeam(matchResults[k].team1Id),
                              NameOfTeam(matchResults[k].team2Id)>>
       /\ Len(teamStats) = n
       /\ \A i \in 1..n : teamStats[i].name = submittedTeamData[i].name
       /\ 0 <= currentMatchViewIndex
       /\ currentMatchViewIndex < Len(matches)
\* a league of three teams loaded back from the store with its first two
\* matches saved, showing the third
C34_Witness ==
  /\ roundNumber > 0
  /\ currentLeagueName # Undefined
  /\ savedLeagues # NoLeagues
  /\ Len(matches) = 3
  /\ currentMatchViewIndex = 2
  /\ currentTeamIndex = 0

\* the roster of the team with this identity, empty when there is no such team
RosterOf(teamId) ==
  LET k == IndexById(submittedTeamData, teamId)
  IN IF k > 0 THEN submittedTeamData[k].players ELSE <<>>
FromRoster(scorers, players) ==
  \A e \in 1..Len(scorers) :
    \E p \in 1..Len(players) : players[p].id = scorers[e].playerId

\* C35: in every reachable state every entry of a scorer list of a match
\* result references a player of the roster of that side's team (the team of
\* team1Id for team1GoalScorers, the team of team2Id for team2GoalScorers),
\* and with a roster size of 0 every scorer list is empty.
C35_ScorersFromRoster ==
  \A k \in 1..Len(matchResults) :
    /\ FromRoster(matchResults[k].team1GoalScorers, RosterOf(matchResults[k].team1Id))
    /\ FromRoster(matchResults[k].team2GoalScorers, RosterOf(matchResults[k].team2Id))
    /\ numPlayersPerTeam = 0 =>
         /\ matchResults[k].team1GoalScorers = <<>>
         /\ matchResults[k].team2GoalScorers = <<>>
\* the second fixture of a league of three teams with a scorer on each side
C35_Witness ==
  /\ MatchInputSection
  /\ Len(matchResults) = 3
  /\ matchResults[2].team1GoalScorers # <<>>
  /\ matchResults[2].team2GoalScorers # <<>>

\* C36: in every reachable state a match result that carries the mismatch
\* flag is unsaved or under edit: no match result that is saved and not under
\* edit has goalScorerMismatch set, after persisting and loading a league too.
C36_MismatchOnlyWhileOpen ==
  \A k \in 1..Len(matchResults) :
    matchResults[k].goalScorerMismatch =>
      (~matchResults[k].saved \/ matchResults[k].isEditing)

\* a league is current only while it is played, and then it is in the store
NamedOnlyWhileActive ==
  currentLeagueName # Undefined =>
    /\ roundNumber > 0
    /\ \E name \in DOMAIN savedLeagues : currentLeagueName = Some(name)

\* C37: in every reachable state currentLeagueName is set only while a league
\* is active (roundNumber > 0), and the league it names is in the store; every
\* delete, confirmed or declined, happens with roundNumber = 0 and on a league
\* other than the one currentLeagueName names.
C37_CurrentLeagueNeverDeleted ==
  [][/\ NamedOnlyWhileActive
     /\ NamedOnlyWhileActive'
     /\ \A name \in DOMAIN savedLeagues : \A confirmed \in BOOLEAN :
          handleDeleteLeague(name, confirmed) =>
            /\ roundNumber = 0
            /\ currentLeagueName # Some(name)]_vars
\* a league loaded from the store is current and the only one left there
C37_Witness ==
  /\ roundNumber > 0
  /\ currentTeamIndex = 0
  /\ \E name \in DOMAIN savedLeagues :
       /\ currentLeagueName = Some(name)
       /\ DOMAIN savedLeagues = {name}
       /\ name = <<"M">>

\* the warning modal has the type 'confirm' only in the naming stage, before
\* a league is active
ConfirmOnlyInNaming ==
  warningModalType = "confirm" =>
    (roundNumber = 0 /\ appStage = "namingTeamsAndPlayers")

\* C38: the setup flow never wipes an active league: the warning modal has
\* the type 'confirm' only with roundNumber = 0 in the naming stage, the steps
\* that run startTheGames are taken with roundNumber = 0 only, no step between
\* two states with an active league empties the standings or replaces the
\* match results, and every step that closes the warning modal of a league
\* that stays active closes an alert and leaves the league, the store and the
\* name of the current league as they are.
C38_SetupNeverWipesLeague ==
  [][/\ ConfirmOnlyInNaming
     /\ ConfirmOnlyInNaming'
     /\ (handleStartGamesClick \/ handleConfirmStartGames) => roundNumber = 0
     /\ (roundNumber > 0 /\ roundNumber' > 0) =>
          /\ submittedTeamData' = submittedTeamData
          /\ matches' = matches
          /\ Len(matchResults') = Len(matchResults)
          /\ \A i \in 1..Len(teamStats) :
                teamStats[i].played > 0 => teamStats'[i].played > 0
     /\ (roundNumber > 0 /\ roundNumber' > 0 /\ showWarningModal /\ ~showWarningModal') =>
          /\ warningModalType = "alert"
          /\ UNCHANGED <<league, store, currentLeagueName>>]_vars
\* the alert of a rejected resave over a league with a match counted
C38_Witness ==
  /\ roundNumber > 0
  /\ WarningModalShown
  /\ warningModalType = "alert"
  /\ warningMessage = "goalScorerMismatch"
  /\ matchResults[1].saved
  /\ teamStats[1].played = 1
====
